---- MODULE Spec2Model ----
(***************************************************************************)
(* A model of the mentabotix-rs graph engine (crates/mentabotix-rs/src/    *)
(* botix.rs): MovingState, MovingTransition and the Botix transition pool. *)
(*                                                                         *)
(* Ownership is modelled as Rust enforces it: a MovingState is a value     *)
(* that is moved, never cloned, so it is held either by the caller         *)
(* (states), by one slot of a transition the caller holds (built), or by   *)
(* one slot of a transition of the pool (transitions).                     *)
(*                                                                         *)
(* The bdmc-rs controller (crates/bdmc-rs/src/controller.rs) is modelled   *)
(* beside it: a delay_with_breaker / delay_with_breaker_match call as a    *)
(* process over a tick clock (delayCall), and the serial side of           *)
(* CloseLoopController (serial, motor_infos, wire).                        *)
(***************************************************************************)
EXTENDS Integers, Sequences, FiniteSets, TLC

\* ------------------------------------------------------------------ bounds
MaxStates == 2          \* MovingState constructions explored
MaxTransitions == 2     \* MovingTransition constructions explored, graph
MaxPoolTransitions == 3 \* MovingTransition constructions explored, pool
MaxFrom == 2            \* from_states entries per transition explored
MaxExtend == 2          \* length of the vector given to extend_transitions
NumThreads == 2         \* constructing threads
MaxBuilderStates == 3   \* MovingState constructions explored, builder
MaxBuilderTransitions == 1 \* MovingTransition constructions explored, builder
MaxScalings == 2        \* with_multiplier calls explored
MaxElapsed == 6         \* clock ticks for which a delay call is followed
MaxSpin == 2            \* zero-length sleeps explored between two clock ticks
MaxWrites == 2          \* completed serial writes explored
MaxSamplerIndex == 3    \* largest used_sampler_index passed to construct_updater
MaxMoveStates == 1      \* states built by the movement constructors in one run
MaxDetectThreads == 2   \* apriltag_detect_start calls that spawn a thread

\* -------------------------------------------------------------- f64 values
\* An f64 is modelled as an integer number of milliseconds, or NaN.
\* Comparisons follow IEEE 754: every comparison with NaN is false.
F(n) == [nan |-> FALSE, v |-> n]
NaN == [nan |-> TRUE, v |-> 0]
FLt(a, b) == ~a.nan /\ ~b.nan /\ a.v < b.v
FGe(a, b) == ~a.nan /\ ~b.nan /\ a.v >= b.v

\* The durations a caller passes or writes: negative, zero, positive, NaN.
Durations == {F(-1), F(0), F(1), NaN}

\* The durations of the transitions of the graph specification, whose
\* operations never read a duration: one the constructor rejects, one it takes.
GraphDurations == {F(-1), F(1)}

\* check_interval: 0.01 (seconds), here in milliseconds
DefaultCheckIntervalMs == 10

\* ------------------------------------------------------------ value types
\* SpeedPattern::Full(speed); the patterns the model's callers construct.
Full(speed) == [type |-> "Full", speed |-> speed]
Patterns == {Full(0)}

\* SpeedPattern::LeftRight { left, right }
LeftRight(left, right) == [type |-> "LeftRight", left |-> left, right |-> right]

\* SpeedPattern::Individual { front_left, rear_left, front_right, rear_right }
Individual(front_left, rear_left, front_right, rear_right) ==
    [type |-> "Individual", front_left |-> front_left, rear_left |-> rear_left,
     front_right |-> front_right, rear_right |-> rear_right]

\* The patterns of the states whose speeds are scaled: each variant, with
\* odd and negative components.
StatePatterns ==
    {Full(1), Full(50), LeftRight(1, -3), LeftRight(3, -4), Individual(1, -1, 3, -3)}

\* An f64 multiplier is modelled as the fraction num/den (den > 0), or NaN;
\* the products of the speeds explored with these fractions are exact in f64.
M(num, den) == [nan |-> FALSE, num |-> num, den |-> den]
MNaN == [nan |-> TRUE, num |-> 0, den |-> 1]
Multipliers == {M(2, 1), M(1, 2), M(-1, 1), M(-3, 2), MNaN}

\* `x as i32` for an f64 x = n/d: the fraction is dropped (rounding toward
\* zero) and the value saturates at the ends of i32
CastI32(n, d) ==
    LET q == IF n >= 0 THEN n \div d ELSE -((-n) \div d) IN
    IF q > 2147483647 THEN 2147483647
    ELSE IF q < -2147483647 - 1 THEN -2147483647 - 1
    ELSE q

\* Faulty variant of ScaleSpeed: the product is rounded down
ScaleSpeedFloor(speed, multiplier) ==
    IF multiplier.nan THEN 0
    ELSE (speed * multiplier.num) \div multiplier.den

\* (speed as f64 * multiplier) as i32; NaN casts to 0
ScaleSpeed(speed, multiplier) ==
    IF multiplier.nan THEN 0
    ELSE CastI32(speed * multiplier.num, multiplier.den)

\* the match of with_multiplier: each component is scaled, the variant stays
ScalePattern(p, multiplier) ==
    CASE p.type = "Full" -> Full(ScaleSpeed(p.speed, multiplier))
      [] p.type = "LeftRight" ->
            LeftRight(ScaleSpeed(p.left, multiplier), ScaleSpeed(p.right, multiplier))
      [] p.type = "Individual" ->
            Individual(ScaleSpeed(p.front_left, multiplier),
                       ScaleSpeed(p.rear_left, multiplier),
                       ScaleSpeed(p.front_right, multiplier),
                       ScaleSpeed(p.rear_right, multiplier))

\* SpeedPattern::to_array
to_array(p) ==
    CASE p.type = "Full" -> <<p.speed, p.speed, p.speed, p.speed>>
      [] p.type = "LeftRight" -> <<p.left, p.left, p.right, p.right>>
      [] p.type = "Individual" ->
            <<p.front_left, p.rear_left, p.front_right, p.rear_right>>

\* The keys a caller passes to with_to_state.
Keys == {"a", "b"}

\* Option::None for breaker
None == "None"

\* HashMap::new()
EmptyMap == [k \in {} |-> 0]

\* Faulty variant of MapInsert: entry(key).or_insert(value), which keeps the
\* value a key already has
MapInsertKeepFirst(m, key, value) ==
    [k \in (DOMAIN m) \cup {key} |-> IF k \in DOMAIN m THEN m[k] ELSE value]

\* HashMap::insert(key, value): inserts or overwrites
MapInsert(m, key, value) ==
    [k \in (DOMAIN m) \cup {key} |-> IF k = key THEN value ELSE m[k]]

VARIABLES
    STATE_ID_COUNTER,        \* static AtomicUsize
    TRANSITION_ID_COUNTER,   \* static AtomicUsize
    states,                  \* MovingState values held by the caller
    built,                   \* MovingTransition values held by the caller
    transitions,             \* Botix.transitions, the pool (a Vec)
    result,                  \* what the last call returned
    refPool,                 \* the reference sequence of the pool operations
    stateIdLog,              \* ids returned by STATE_ID_COUNTER.fetch_add, in order
    transitionIdLog,         \* ids returned by TRANSITION_ID_COUNTER.fetch_add, in order
    pc,                      \* per thread: position inside a constructor
    local,                   \* per thread: the constructor's locals
    builderLog,              \* per held transition: the with_from_state and with_to_state calls made on it
    scalings,                \* number of with_multiplier calls made
    delayCall,               \* the frame of a delay_with_breaker / delay_with_breaker_match call
    serial,                  \* CloseLoopController.serial
    motor_infos,             \* CloseLoopController.motor_infos
    wire,                    \* the byte strings of the write_all calls that completed, in order
    ctlResult,               \* what the last controller call returned
    samplers,                \* Menta.samplers
    updater,                 \* what the last construct_updater call returned
    updated,                 \* what the last call of the updater closure returned
    camera,                  \* TagDetector.camera is Some
    continue_detection,      \* TagDetector.continue_detection, shared with the threads
    halt_detection,          \* TagDetector.halt_detection, shared with the threads
    tag_id,                  \* TagDetector.tag_id, shared with the threads
    detectThreads,           \* the detection threads spawned so far, in order
    detectorCall             \* the TagDetector method the owner is in, and the last return

threadVars == <<pc, local>>
logVars == <<stateIdLog, transitionIdLog>>
ctlVars == <<serial, motor_infos, wire, ctlResult>>
sensorVars == <<samplers, updater, updated>>
tagVars == <<camera, continue_detection, halt_detection, tag_id, detectThreads,
             detectorCall>>
auxVars == <<sensorVars, tagVars>>
deviceVars == <<delayCall, ctlVars, auxVars>>
otherVars == <<builderLog, scalings, deviceVars>>
graphVars == <<STATE_ID_COUNTER, TRANSITION_ID_COUNTER, states, built, transitions,
               result, refPool, stateIdLog, transitionIdLog, pc, local, builderLog,
               scalings>>

vars == <<graphVars, deviceVars>>

Threads == 1..NumThreads

\* ------------------------------------------------------------ constructors
\* Faulty variant of FetchAddNew: the counter is read but not advanced
FetchAddNewStale(c) == c

\* AtomicUsize::fetch_add(1, SeqCst): the value the counter holds afterwards
\* (the value returned is the one it held before).
FetchAddNew(c) == c + 1

\* MovingState { id, speed_pattern, before_entering, after_exiting }
MovingStateValue(id, speed_pattern) ==
    [id |-> id, speed_pattern |-> speed_pattern]

\* MovingTransition::new's Ok value
MovingTransitionValue(id, duration) ==
    [id |-> id,
     duration |-> duration,
     breaker |-> None,
     check_interval |-> F(DefaultCheckIntervalMs),
     from_states |-> <<>>,
     to_states |-> EmptyMap]

\* Faulty variant of InvalidDuration: the test written as duration <= 0.0
InvalidDurationOrZero(duration) == FLt(duration, F(0)) \/ duration = F(0)

\* the `if duration < 0.0` test of MovingTransition::new
InvalidDuration(duration) == FLt(duration, F(0))

\* Result<MovingTransition, _> carries a transition or none
NoTransition == [some |-> FALSE]
SomeTransition(t) == [some |-> TRUE, v |-> t]

\* the MovingState a builder returns
SomeState(s) == [some |-> TRUE, v |-> s]

\* Faulty variant of MovingStateEq: #[derive(PartialEq)], which compares
\* every field
MovingStateEqDerived(a, b) == a.id = b.id /\ a.speed_pattern = b.speed_pattern

\* impl PartialEq for MovingState: self.id == other.id
MovingStateEq(a, b) == a.id = b.id

\* The record of one with_from_state or with_to_state call: what was passed,
\* and the id and the duration of the transition the call returned.
BuilderCall(op, key, state, u) ==
    [op |-> op, key |-> key, state |-> state, id |-> u.id, duration |-> u.duration]
LogOf(log, id) == IF id \in DOMAIN log THEN log[id] ELSE <<>>
LogAppend(log, id, call) ==
    [k \in (DOMAIN log) \cup {id} |->
        IF k = id THEN Append(LogOf(log, id), call) ELSE log[k]]
LogDrop(log, ids) == [k \in (DOMAIN log) \ ids |-> log[k]]

Ret(op, outcome, arg, value) ==
    [op |-> op, outcome |-> outcome, arg |-> arg, value |-> value]

\* ------------------------------------------------ controller value types
\* MotorInfo { code_sign, direction }
MotorInfo(code_sign, direction) == [code_sign |-> code_sign, direction |-> direction]

\* pub const CLASSIC_MIS: [MotorInfo; 4]
CLASSIC_MIS == <<MotorInfo(1, 1), MotorInfo(2, 1), MotorInfo(3, 1), MotorInfo(4, 1)>>

\* What a controller call returned: Ok or Err with its message, the log
\* levels it emitted, the number of write_all calls it made and of those
\* that completed, and the number of ports it opened.
CtlRet(op, outcome, arg) ==
    [op |-> op, outcome |-> outcome, arg |-> arg, error |-> "", logs |-> {},
     wrote |-> 0, attempts |-> 0, opened |-> 0]

\* ---------------------------------------------------------------- binary64
\* The arithmetic of differential and drift is done in f64. A positive f64 is
\* held as its significand, a sequence of F64Precision bits (first bit 1,
\* most significant first), and an exponent: the value is the significand,
\* read as an integer, times 2^exp. Signs are carried by the callers.
F64Precision == 53
F64Zero == [mant |-> <<>>, exp |-> 0]

\* The w-bit binary numeral of x < 2^w
BitsOf(x, w) == [i \in 1..w |-> (x \div (2 ^ (w - i))) % 2]

\* The number of bits of x, 1 <= x < 2^30
BitLength(x) == CHOOSE k \in 1..30 : 2 ^ (k - 1) <= x /\ x < 2 ^ k

RECURSIVE BitsToNat(_)
BitsToNat(bits) ==
    IF bits = <<>> THEN 0
    ELSE 2 * BitsToNat(SubSeq(bits, 1, Len(bits) - 1)) + bits[Len(bits)]

\* bits + 1; a sequence of ones grows by one bit
BitsInc(bits) ==
    IF \A i \in 1..Len(bits) : bits[i] = 1
    THEN <<1>> \o [i \in 1..Len(bits) |-> 0]
    ELSE LET j == CHOOSE i \in 1..Len(bits) :
                      bits[i] = 0 /\ \A k \in (i + 1)..Len(bits) : bits[k] = 1
         IN  [i \in 1..Len(bits) |-> IF i < j THEN bits[i] ELSE IF i = j THEN 1 ELSE 0]

\* Faulty variant of F64Round: the bits past the significand are dropped
F64RoundChop(bits, exp, sticky) ==
    IF Len(bits) <= F64Precision
    THEN [mant |-> bits \o [i \in 1..(F64Precision - Len(bits)) |-> 0],
          exp |-> exp - (F64Precision - Len(bits))]
    ELSE [mant |-> SubSeq(bits, 1, F64Precision),
          exp |-> exp + (Len(bits) - F64Precision)]

\* The f64 nearest to bits * 2^exp (+ a nonzero part below the last bit when
\* sticky), ties to the even significand: IEEE 754 round-to-nearest-even,
\* the rounding of every f64 operation. bits starts with 1.
F64Round(bits, exp, sticky) ==
    IF Len(bits) <= F64Precision
    THEN [mant |-> bits \o [i \in 1..(F64Precision - Len(bits)) |-> 0],
          exp |-> exp - (F64Precision - Len(bits))]
    ELSE LET kept == SubSeq(bits, 1, F64Precision)
             guard == bits[F64Precision + 1]
             rest == sticky \/ \E i \in (F64Precision + 2)..Len(bits) : bits[i] = 1
             up == guard = 1 /\ (rest \/ kept[F64Precision] = 1)
             e == exp + (Len(bits) - F64Precision)
             inc == BitsInc(kept)
         IN  IF ~up THEN [mant |-> kept, exp |-> e]
             ELSE IF Len(inc) > F64Precision
             THEN [mant |-> SubSeq(inc, 1, F64Precision), exp |-> e + 1]
             ELSE [mant |-> inc, exp |-> e]

\* p / q scaled so that q <= p < 2q: p/q = (p'/q') * 2^e
RECURSIVE Normalize(_, _, _)
Normalize(p, q, e) ==
    IF p < q THEN Normalize(2 * p, q, e - 1)
    ELSE IF p >= 2 * q THEN Normalize(p, 2 * q, e + 1)
    ELSE [p |-> p, q |-> q, e |-> e]

\* 2^k mod q
RECURSIVE PowMod2(_, _)
PowMod2(k, q) == IF k = 0 THEN 1 % q ELSE (2 * PowMod2(k - 1, q)) % q

\* Bit i of the binary expansion of p / q (q <= p < 2q < 2^15), bit 1 being
\* the integer part: the long division's i-th quotient bit
QuotientBit(p, q, i) ==
    IF i = 1 THEN 1 ELSE (2 * (((p % q) * PowMod2(i - 2, q)) % q)) \div q

\* The long division has a remainder after n quotient bits
QuotientInexact(p, q, n) == ((p % q) * PowMod2(n - 1, q)) % q # 0

\* The f64 quotient p / q of two f64 values that are the integers p >= 0
\* and q > 0: the exact quotient, rounded once
F64Div(p, q) ==
    IF p = 0 THEN F64Zero
    ELSE LET n == Normalize(p, q, 0)
             bits == [i \in 1..(F64Precision + 1) |-> QuotientBit(n.p, n.q, i)]
         IN  F64Round(bits, n.e - F64Precision,
                      QuotientInexact(n.p, n.q, F64Precision + 1))

\* The significand is multiplied in four limbs, the last three of 14 bits,
\* so that limb * n + carry stays below 2^31 for n < 2^17
LimbBase == 2 ^ 14
Limb(mant, k) ==
    BitsToNat(SubSeq(mant, F64Precision - (k + 1) * 14 + 1, F64Precision - k * 14))
TopLimb(mant) == BitsToNat(SubSeq(mant, 1, F64Precision - 3 * 14))

\* mant * n for an integer 1 <= n < 2^17, as a bit sequence that starts with 1
MulBits(mant, n) ==
    LET t0 == Limb(mant, 0) * n
        t1 == Limb(mant, 1) * n + t0 \div LimbBase
        t2 == Limb(mant, 2) * n + t1 \div LimbBase
        t3 == TopLimb(mant) * n + t2 \div LimbBase
    IN  BitsOf(t3, BitLength(t3)) \o BitsOf(t2 % LimbBase, 14)
            \o BitsOf(t1 % LimbBase, 14) \o BitsOf(t0 % LimbBase, 14)

\* The f64 product x * (n as f64) for an integer n >= 0: the exact product,
\* rounded once
F64MulNat(x, n) ==
    IF x = F64Zero \/ n = 0 THEN F64Zero
    ELSE F64Round(MulBits(x.mant, n), x.exp, FALSE)

\* `x as i32` for x >= 0 (negative when neg): the integer part, saturating
F64ToI32(neg, x) ==
    LET k == F64Precision + x.exp
        q == IF x = F64Zero \/ k <= 0 THEN 0
             ELSE IF k > 31 THEN 2147483647
             ELSE BitsToNat(SubSeq(x.mant, 1, k))
    IN  IF ~neg \/ x = F64Zero THEN q
        ELSE IF k > 31 THEN -2147483647 - 1
        ELSE -q

\* ------------------------------------------------------ Menta value types
\* Sampler::Sequence(f), f() a vector; Sampler::Indexed(f), f(i) a value;
\* Sampler::Direct(f), f() a value read as a bit field
SequenceSampler(data) == [kind |-> "Sequence", data |-> data]
IndexedSampler(base) == [kind |-> "Indexed", data |-> <<base>>]
DirectSampler(bits) == [kind |-> "Direct", data |-> <<bits>>]

\* SamplerUsage::new(used_sampler_index, required_data_indexes); both are
\* usize, counted from 0
SamplerUsage(used_sampler_index, required_data_indexes) ==
    [used_sampler_index |-> used_sampler_index,
     required_data_indexes |-> required_data_indexes]

\* Result<UpdaterClosure, Box<dyn Error>>: the closure holds a clone of the
\* sampler and the data indexes it was built for
UpdaterErr(usages, error) ==
    [outcome |-> "Err", usages |-> usages, error |-> error, variant |-> "",
     sampler |-> SequenceSampler(<<>>), indexes |-> <<>>]
UpdaterOk(usages, variant, sampler, indexes) ==
    [outcome |-> "Ok", usages |-> usages, error |-> "", variant |-> variant,
     sampler |-> sampler, indexes |-> indexes]
NoUpdater == UpdaterErr(<<>>, "none")
\* the panic of self.samplers[i] for an i past the end of the Vec
UpdaterPanic(usages) ==
    [UpdaterErr(usages, "index out of bounds") EXCEPT !.outcome = "Panic"]

\* What a call of the closure gave: the data, or the panic of an index past
\* the end of the sampled vector
NotCalled == [outcome |-> "none", value |-> <<>>]
Sampled(value) == [outcome |-> "Ok", value |-> value]
SamplePanic == [outcome |-> "Panic", value |-> <<>>]

\* ------------------------------------------------ TagDetector value types
\* Config::default().default_tag_id
DefaultTagId == -1

\* The owner of the detector is between two calls (the last one returned
\* outcome), or inside a call, before its statement pc
DetectorIdle(op, outcome) == [pc |-> "idle", op |-> op, outcome |-> outcome]
DetectorIn(op, at) == [pc |-> at, op |-> op, outcome |-> ""]

\* A detection thread at the top of its loop. fate records what the owner
\* has done since the thread was spawned: "started" (nothing), "ended"
\* (apriltag_detect_end has returned), "restarted" (apriltag_detect_start was
\* called after that end).
SpawnedThread == [pc |-> "check_continue", fate |-> "started"]

\* ------------------------------------------------- the frame of a delay call
\* No delay call is in progress.
IdleCall ==
    [pc |-> "idle", fn |-> "none", delay_sec |-> F(0), check_interval |-> F(0),
     elapsed |-> 0, check_count |-> 0, events |-> <<>>, last_result |-> None,
     returned |-> None, exact |-> TRUE, spin |-> 0]

Init ==
    /\ STATE_ID_COUNTER = 0
    /\ TRANSITION_ID_COUNTER = 0
    /\ states = {}
    /\ built = {}
    /\ transitions = <<>>
    /\ result = Ret("none", "Ok", None, NoTransition)
    /\ refPool = <<>>
    /\ stateIdLog = <<>>
    /\ transitionIdLog = <<>>
    /\ pc = [t \in Threads |-> "idle"]
    /\ local = [t \in Threads |-> None]
    /\ builderLog = EmptyMap
    /\ scalings = 0
    /\ delayCall = IdleCall
    /\ serial = None
    /\ motor_infos = CLASSIC_MIS
    /\ wire = <<>>
    /\ ctlResult = CtlRet("none", "Ok", <<>>)
    /\ samplers = <<>>
    /\ updater = NoUpdater
    /\ updated = NotCalled
    /\ camera = FALSE
    /\ continue_detection = FALSE
    /\ halt_detection = FALSE
    /\ tag_id = DefaultTagId
    /\ detectThreads = <<>>
    /\ detectorCall = DetectorIdle("new", "Ok")

\* MovingState::new(speed_pattern), called by the thread that owns the graph
MovingState_new(speed_pattern, limit) ==
    /\ STATE_ID_COUNTER < limit
    /\ LET id == STATE_ID_COUNTER IN
        /\ STATE_ID_COUNTER' = FetchAddNew(STATE_ID_COUNTER)
        /\ stateIdLog' = Append(stateIdLog, id)
        /\ states' = states \cup {MovingStateValue(id, speed_pattern)}
        /\ result' = Ret("MovingState::new", "Ok", None, NoTransition)
    /\ UNCHANGED <<TRANSITION_ID_COUNTER, built, transitions, refPool,
                   transitionIdLog, threadVars, otherVars>>

\* Faulty variant of CounterAfterNew: the id is drawn before the duration is
\* tested
CounterAfterNewEager(c, invalid) == FetchAddNew(c)

\* TRANSITION_ID_COUNTER after MovingTransition::new: the early return of the
\* duration test comes before the fetch_add of the Ok value
CounterAfterNew(c, invalid) == IF invalid THEN c ELSE FetchAddNew(c)

\* MovingTransition::new(duration)
MovingTransition_new(duration, limit) ==
    /\ TRANSITION_ID_COUNTER < limit
    /\ TRANSITION_ID_COUNTER' =
          CounterAfterNew(TRANSITION_ID_COUNTER, InvalidDuration(duration))
    /\ IF InvalidDuration(duration)
       THEN /\ result' = Ret("MovingTransition::new", "Err", duration, NoTransition)
            /\ UNCHANGED <<transitionIdLog, built>>
       ELSE LET id == TRANSITION_ID_COUNTER
                t == MovingTransitionValue(id, duration) IN
            /\ transitionIdLog' = Append(transitionIdLog, id)
            /\ built' = built \cup {t}
            /\ result' = Ret("MovingTransition::new", "Ok", duration, SomeTransition(t))
    /\ UNCHANGED <<STATE_ID_COUNTER, states, transitions, refPool, stateIdLog,
                   threadVars, otherVars>>

\* Faulty variant of MoveState: the caller keeps the state it passed, as if
\* MovingState were Clone
MoveStateCloned(held, state) == held

\* `state: MovingState` is passed by value and MovingState is not Clone: the
\* caller no longer holds the state it passed
MoveState(held, state) == held \ {state}

\* MovingTransition::with_from_state(self, state): both are moved in
with_from_state(t, state) ==
    /\ t \in built
    /\ state \in states
    /\ Len(t.from_states) < MaxFrom
    /\ LET u == [t EXCEPT !.from_states = Append(@, state)] IN
        /\ built' = (built \ {t}) \cup {u}
        /\ result' = Ret("with_from_state", "Ok", None, NoTransition)
        /\ builderLog' = LogAppend(builderLog, t.id,
                                    BuilderCall("with_from_state", "", state, u))
    /\ states' = MoveState(states, state)
    /\ UNCHANGED <<STATE_ID_COUNTER, TRANSITION_ID_COUNTER, transitions, refPool,
                   logVars, threadVars, scalings, deviceVars>>

\* MovingTransition::with_to_state(self, key, state): HashMap::insert drops
\* the state the key mapped to before
with_to_state(t, key, state) ==
    /\ t \in built
    /\ state \in states
    /\ LET u == [t EXCEPT !.to_states = MapInsert(@, key, state)] IN
        /\ built' = (built \ {t}) \cup {u}
        /\ result' = Ret("with_to_state", "Ok", None, NoTransition)
        /\ builderLog' = LogAppend(builderLog, t.id,
                                    BuilderCall("with_to_state", key, state, u))
    /\ states' = MoveState(states, state)
    /\ UNCHANGED <<STATE_ID_COUNTER, TRANSITION_ID_COUNTER, transitions, refPool,
                   logVars, threadVars, scalings, deviceVars>>

\* `pub duration: f64`: a caller holding a transition assigns the field
write_duration(t, duration) ==
    /\ t \in built
    /\ duration # t.duration
    /\ LET u == [t EXCEPT !.duration = duration] IN
        /\ built' = (built \ {t}) \cup {u}
        /\ result' = Ret("duration=", "Ok", None, NoTransition)
    /\ UNCHANGED <<STATE_ID_COUNTER, TRANSITION_ID_COUNTER, states, transitions,
                   refPool, logVars, threadVars, otherVars>>

\* MovingState::with_multiplier(self, multiplier): the state is moved in and
\* returned with its pattern replaced
with_multiplier(state, multiplier) ==
    /\ state \in states
    /\ scalings < MaxScalings
    /\ scalings' = scalings + 1
    /\ LET u == [state EXCEPT !.speed_pattern = ScalePattern(@, multiplier)] IN
        /\ states' = (states \ {state}) \cup {u}
        /\ result' = Ret("with_multiplier", "Ok", state, SomeState(u))
    /\ UNCHANGED <<STATE_ID_COUNTER, TRANSITION_ID_COUNTER, built, transitions,
                   refPool, logVars, threadVars, builderLog, deviceVars>>

\* The polling intervals a caller passes to with_check_interval.
CheckIntervals == {F(-1)}

\* The closures a caller installs as a transition's breaker.
Breakers == {"always_true"}

\* MovingTransition::with_breaker(self, breaker)
with_breaker(t, breaker) ==
    /\ t \in built
    /\ LET u == [t EXCEPT !.breaker = breaker] IN
        /\ built' = (built \ {t}) \cup {u}
        /\ result' = Ret("with_breaker", "Ok", t, SomeTransition(u))
    /\ UNCHANGED <<STATE_ID_COUNTER, TRANSITION_ID_COUNTER, states, transitions,
                   refPool, logVars, threadVars, otherVars>>

\* MovingTransition::with_check_interval(self, interval): any f64 is taken
with_check_interval(t, interval) ==
    /\ t \in built
    /\ LET u == [t EXCEPT !.check_interval = interval] IN
        /\ built' = (built \ {t}) \cup {u}
        /\ result' = Ret("with_check_interval", "Ok", t, SomeTransition(u))
    /\ UNCHANGED <<STATE_ID_COUNTER, TRANSITION_ID_COUNTER, states, transitions,
                   refPool, logVars, threadVars, otherVars>>

\* ------------------------------------------------------------------- Vec
\* Vec::push
VecPush(v, x) == v \o <<x>>

\* Vec::extend(iter): pushes the items in iteration order
RECURSIVE VecExtend(_, _)
VecExtend(v, items) ==
    IF items = <<>> THEN v
    ELSE VecExtend(VecPush(v, Head(items)), Tail(items))

\* the closure of remove_transition: |t| t.id() != transition_id
RetainKeeps(t, transition_id) == t.id # transition_id

\* Faulty variant of VecRetain: the element is taken out with swap_remove, which
\* moves the last element into its place
VecRetainSwap(v, transition_id) ==
    IF \E i \in DOMAIN v : v[i].id = transition_id
    THEN LET i == CHOOSE x \in DOMAIN v : v[x].id = transition_id IN
         [j \in 1..(Len(v) - 1) |-> IF j = i THEN v[Len(v)] ELSE v[j]]
    ELSE v

\* Vec::retain(f) with that closure: visits each element once, in order,
\* and keeps exactly those for which f is true
RECURSIVE VecRetain(_, _)
VecRetain(v, transition_id) ==
    IF v = <<>> THEN <<>>
    ELSE IF RetainKeeps(Head(v), transition_id)
         THEN <<Head(v)>> \o VecRetain(Tail(v), transition_id)
         ELSE VecRetain(Tail(v), transition_id)

\* Vec::clear
VecClear(v) == <<>>

\* ------------------------------------------------------- degree analysis
\* HashMap::entry(k).or_insert(0)
EntryOrInsert0(m, k) ==
    IF k \in DOMAIN m THEN m ELSE [j \in (DOMAIN m) \cup {k} |-> IF j = k THEN 0 ELSE m[j]]

\* *HashMap::entry(k).or_insert(0) += 1
EntryIncrement(m, k) ==
    LET n == EntryOrInsert0(m, k) IN [n EXCEPT ![k] = @ + 1]

\* Faulty variant of IndegreeFrom: the source states get no in-degree entry
IndegreeFromSkipped(m, from_states) == m

\* `for state in &transition.from_states` of start_states
RECURSIVE IndegreeFrom(_, _)
IndegreeFrom(m, from_states) ==
    IF from_states = <<>> THEN m
    ELSE IndegreeFrom(EntryOrInsert0(m, Head(from_states).id), Tail(from_states))

\* `for state in transition.to_states.values()` of start_states; a HashMap
\* iterates in an arbitrary order, and the additions commute
RECURSIVE IndegreeTo(_, _, _)
IndegreeTo(m, to_states, keys) ==
    IF keys = {} THEN m
    ELSE LET k == CHOOSE x \in keys : TRUE IN
         IndegreeTo(EntryIncrement(m, to_states[k].id), to_states, keys \ {k})

\* `for transition in &self.transitions` of start_states
RECURSIVE StatesIndegree(_, _)
StatesIndegree(m, pool) ==
    IF pool = <<>> THEN m
    ELSE LET t == Head(pool)
             m1 == IndegreeFrom(m, t.from_states)
             m2 == IndegreeTo(m1, t.to_states, DOMAIN t.to_states) IN
         StatesIndegree(m2, Tail(pool))

\* Faulty variant of IsStartDegree: the filter written as indegree <= 1
IsStartDegreeAtMostOne(indegree) == indegree <= 1

\* the filter of start_states: |&(_, &indegree)| indegree == 0
IsStartDegree(indegree) == indegree = 0

\* Botix::start_states
start_states(pool) ==
    LET states_indegree == StatesIndegree(EmptyMap, pool) IN
    {state_id \in DOMAIN states_indegree : IsStartDegree(states_indegree[state_id])}

\* `for state in &transition.from_states` of end_states
RECURSIVE OutdegreeFrom(_, _)
OutdegreeFrom(m, from_states) ==
    IF from_states = <<>> THEN m
    ELSE OutdegreeFrom(EntryIncrement(m, Head(from_states).id), Tail(from_states))

\* Faulty variant of OutdegreeTo: the destination states get no out-degree entry
OutdegreeToSkipped(m, to_states, keys) == m

\* `for state in transition.to_states.values()` of end_states
RECURSIVE OutdegreeTo(_, _, _)
OutdegreeTo(m, to_states, keys) ==
    IF keys = {} THEN m
    ELSE LET k == CHOOSE x \in keys : TRUE IN
         OutdegreeTo(EntryOrInsert0(m, to_states[k].id), to_states, keys \ {k})

\* `for transition in &self.transitions` of end_states
RECURSIVE StatesOutdegree(_, _)
StatesOutdegree(m, pool) ==
    IF pool = <<>> THEN m
    ELSE LET t == Head(pool)
             m1 == OutdegreeFrom(m, t.from_states)
             m2 == OutdegreeTo(m1, t.to_states, DOMAIN t.to_states) IN
         StatesOutdegree(m2, Tail(pool))

\* Faulty variant of IsEndDegree: the filter written as outdegree <= 1
IsEndDegreeAtMostOne(outdegree) == outdegree <= 1

\* the filter of end_states: |&(_, &outdegree)| outdegree == 0
IsEndDegree(outdegree) == outdegree = 0

\* Botix::end_states
end_states(pool) ==
    LET states_outdegree == StatesOutdegree(EmptyMap, pool) IN
    {state_id \in DOMAIN states_outdegree : IsEndDegree(states_outdegree[state_id])}

\* Faulty variant of StartCountInvalid: the test written as start_states.len() > 1
StartCountInvalidMany(n) == n > 1

\* the test of validate: start_states.len() != 1
StartCountInvalid(n) == n # 1

\* Botix::validate
validate_result(pool) ==
    IF StartCountInvalid(Cardinality(start_states(pool))) THEN "Err" ELSE "Ok"

\* Faulty variant of MutationOutcome: a mutation validates the pool it leaves
MutationOutcomeValidating(pool) == validate_result(pool)

\* add_transition, remove_transition, extend_transitions and
\* clear_transitions return &mut Self: they have no failure value
MutationOutcome(pool) == "Ok"

\* ----------------------------------------------------------- pool actions
\* the vectors a caller can hand to extend_transitions: the transitions it
\* holds, each at most once, in any order
RECURSIVE DistinctSeqs(_, _)
DistinctSeqs(S, n) ==
    IF n = 0 THEN {<<>>}
    ELSE LET shorter == DistinctSeqs(S, n - 1) IN
         shorter \cup {Append(q, x) : <<q, x>> \in
                          {r \in shorter \X S : \A i \in DOMAIN r[1] : r[1][i] # r[2]}}
ExtendArgs == DistinctSeqs(built, MaxExtend)

SeqToSet(s) == {s[i] : i \in DOMAIN s}

\* Botix::add_transition(transition)
add_transition(t) ==
    /\ t \in built
    /\ transitions' = VecPush(transitions, t)
    /\ refPool' = Append(refPool, t)
    /\ built' = built \ {t}
    /\ builderLog' = LogDrop(builderLog, {t.id})
    /\ result' = Ret("add_transition", MutationOutcome(transitions'), None, NoTransition)
    /\ UNCHANGED <<STATE_ID_COUNTER, TRANSITION_ID_COUNTER, states, logVars,
                   threadVars, scalings, deviceVars>>

\* Botix::remove_transition(transition_id)
remove_transition(transition_id) ==
    /\ transitions' = VecRetain(transitions, transition_id)
    /\ refPool' = SelectSeq(refPool, LAMBDA t : t.id # transition_id)
    /\ result' = Ret("remove_transition", MutationOutcome(transitions'),
                     transition_id, NoTransition)
    /\ UNCHANGED <<STATE_ID_COUNTER, TRANSITION_ID_COUNTER, states, built, logVars,
                   threadVars, otherVars>>

\* Botix::extend_transitions(transitions)
extend_transitions(ts) ==
    /\ ts \in ExtendArgs
    /\ transitions' = VecExtend(transitions, ts)
    /\ refPool' = refPool \o ts
    /\ built' = built \ SeqToSet(ts)
    /\ builderLog' = LogDrop(builderLog, {ts[i].id : i \in DOMAIN ts})
    /\ result' = Ret("extend_transitions", MutationOutcome(transitions'), None, NoTransition)
    /\ UNCHANGED <<STATE_ID_COUNTER, TRANSITION_ID_COUNTER, states, logVars,
                   threadVars, scalings, deviceVars>>

\* Botix::clear_transitions()
clear_transitions ==
    /\ transitions' = VecClear(transitions)
    /\ refPool' = <<>>
    /\ result' = Ret("clear_transitions", MutationOutcome(transitions'), None, NoTransition)
    /\ UNCHANGED <<STATE_ID_COUNTER, TRANSITION_ID_COUNTER, states, built, logVars,
                   threadVars, otherVars>>

\* Botix::validate()
validate ==
    /\ result' = Ret("validate", validate_result(transitions), None, NoTransition)
    /\ UNCHANGED <<STATE_ID_COUNTER, TRANSITION_ID_COUNTER, states, built,
                   transitions, refPool, logVars, threadVars, otherVars>>

\* The graph: states and transitions are constructed, linked by the builder
\* and handed to the pool.
Next ==
    \/ \E p \in Patterns : MovingState_new(p, MaxStates)
    \/ \E d \in GraphDurations : MovingTransition_new(d, MaxTransitions)
    \/ \E t \in built, s \in states : with_from_state(t, s)
    \/ \E t \in built, k \in Keys, s \in states : with_to_state(t, k, s)
    \/ \E t \in built : add_transition(t)
    \/ \E id \in 0..MaxTransitions : remove_transition(id)
    \/ \E ts \in ExtendArgs : extend_transitions(ts)
    \/ clear_transitions
    \/ validate

Spec == Init /\ [][Next]_vars

\* ------------------------------------------------ transitions and durations
\* A caller constructs transitions with any f64, assigns the public duration
\* field of a transition it holds, and hands transitions to the pool; the
\* transitions carry no states.
NextTransition ==
    \/ \E d \in Durations : MovingTransition_new(d, MaxPoolTransitions)
    \/ \E t \in built, d \in Durations : write_duration(t, d)
    \/ \E t \in built : add_transition(t)
    \/ \E id \in 0..MaxPoolTransitions : remove_transition(id)
    \/ \E ts \in ExtendArgs : extend_transitions(ts)
    \/ clear_transitions

SpecTransition == Init /\ [][NextTransition]_vars

\* --------------------------------------------------- states and their speeds
\* A caller constructs states of every pattern variant and scales them.
NextState ==
    \/ \E p \in StatePatterns : MovingState_new(p, MaxStates)
    \/ \E s \in states, m \in Multipliers : with_multiplier(s, m)

SpecState == Init /\ [][NextState]_vars

\* ------------------------------------------------------------ the builder
\* A caller constructs states and transitions and applies the four builder
\* methods to the transitions it holds.
NextBuilder ==
    \/ \E p \in Patterns : MovingState_new(p, MaxBuilderStates)
    \/ \E d \in GraphDurations : MovingTransition_new(d, MaxBuilderTransitions)
    \/ \E t \in built, s \in states : with_from_state(t, s)
    \/ \E t \in built, k \in Keys, s \in states : with_to_state(t, k, s)
    \/ \E t \in built, b \in Breakers : with_breaker(t, b)
    \/ \E t \in built, i \in CheckIntervals : with_check_interval(t, i)

SpecBuilder == Init /\ [][NextBuilder]_vars

\* ------------------------------------------------- concurrent construction
\* Several threads run the constructors. The only shared accesses are the two
\* fetch_add calls, each one atomic step; the struct is returned in a later
\* step of the same thread.

\* MovingState::new, up to and including STATE_ID_COUNTER.fetch_add
thread_state_fetch_add(th, speed_pattern) ==
    /\ pc[th] = "idle"
    /\ STATE_ID_COUNTER < MaxStates
    /\ LET id == STATE_ID_COUNTER IN
        /\ STATE_ID_COUNTER' = FetchAddNew(STATE_ID_COUNTER)
        /\ stateIdLog' = Append(stateIdLog, id)
        /\ local' = [local EXCEPT ![th] = MovingStateValue(id, speed_pattern)]
    /\ pc' = [pc EXCEPT ![th] = "state_built"]
    /\ UNCHANGED <<TRANSITION_ID_COUNTER, states, built, transitions, result,
                   refPool, transitionIdLog, otherVars>>

\* MovingState::new returns the struct to its caller
thread_state_return(th) ==
    /\ pc[th] = "state_built"
    /\ states' = states \cup {local[th]}
    /\ pc' = [pc EXCEPT ![th] = "idle"]
    /\ local' = [local EXCEPT ![th] = None]
    /\ UNCHANGED <<STATE_ID_COUNTER, TRANSITION_ID_COUNTER, built, transitions,
                   result, refPool, logVars, otherVars>>

\* MovingTransition::new, up to and including TRANSITION_ID_COUNTER.fetch_add;
\* the duration test reads the argument only
thread_transition_fetch_add(th, duration) ==
    /\ pc[th] = "idle"
    /\ TRANSITION_ID_COUNTER < MaxTransitions
    /\ IF InvalidDuration(duration)
       THEN UNCHANGED <<TRANSITION_ID_COUNTER, transitionIdLog, pc, local>>
       ELSE LET id == TRANSITION_ID_COUNTER IN
            /\ TRANSITION_ID_COUNTER' = FetchAddNew(TRANSITION_ID_COUNTER)
            /\ transitionIdLog' = Append(transitionIdLog, id)
            /\ local' = [local EXCEPT ![th] = MovingTransitionValue(id, duration)]
            /\ pc' = [pc EXCEPT ![th] = "transition_built"]
    /\ UNCHANGED <<STATE_ID_COUNTER, states, built, transitions, result, refPool,
                   stateIdLog, otherVars>>

\* MovingTransition::new returns Ok(struct) to its caller
thread_transition_return(th) ==
    /\ pc[th] = "transition_built"
    /\ built' = built \cup {local[th]}
    /\ pc' = [pc EXCEPT ![th] = "idle"]
    /\ local' = [local EXCEPT ![th] = None]
    /\ UNCHANGED <<STATE_ID_COUNTER, TRANSITION_ID_COUNTER, states, transitions,
                   result, refPool, logVars, otherVars>>

NextAlloc ==
    \/ \E th \in Threads, p \in Patterns : thread_state_fetch_add(th, p)
    \/ \E th \in Threads : thread_state_return(th)
    \/ \E th \in Threads, d \in Durations : thread_transition_fetch_add(th, d)
    \/ \E th \in Threads : thread_transition_return(th)

SpecAlloc == Init /\ [][NextAlloc]_vars

\* ------------------------------------------------------ delay_with_breaker
\* Time is counted in ticks of the monotonic clock; delayCall.elapsed is
\* start_time.elapsed(). thread::sleep(d) takes d; everything else takes no
\* time unless clock_tick says so, and clock_tick also stands for a sleep
\* that lasts longer than asked. A call's events are its breaker results
\* and its sleeps, in the order they happen.

\* The delay_sec and check_interval arguments: negative, zero, positive, NaN.
DelaySecs == {F(-1), F(0), F(1), F(2), F(4), NaN}
PollIntervals == {F(-1), F(0), F(1), F(2), F(3), NaN}

\* What a breaker returns: bool for delay_with_breaker, a T for
\* delay_with_breaker_match.
BreakerResults(fn) ==
    IF fn = "delay_with_breaker" THEN {"true", "false"} ELSE {"go", "stop"}

\* Duration::from_secs_f64 panics when its argument is negative or not finite
DurationPanics(secs) == secs.nan \/ secs.v < 0
DurationFromSecs(secs) == secs.v

\* Faulty variant of InitialBreak: the result of the first evaluation is ignored
InitialBreakNever(v) == FALSE

\* `if breaker() { return self; }` before the loop of delay_with_breaker
InitialBreak(v) == v = "true"

\* Faulty variant of NotMatches: the pattern of the test names one value
NotMatchesStop(v) == v = "stop"

\* `!matches!(result, _)` of delay_with_breaker_match: the wildcard matches
\* every value, so the test is never true
NotMatches(v) == ~TRUE

\* Faulty variant of PollBreak: the loop has no break
PollBreakMissing(v) == FALSE

\* `if breaker() { break; }` in the loop of delay_with_breaker
PollBreak(v) == v = "true"

\* Faulty variant of StillWaiting: the loop test written with <=
StillWaitingInclusive(elapsed, delay_duration) == elapsed <= delay_duration

\* the loop test: start_time.elapsed() < delay_duration
StillWaiting(elapsed, delay_duration) == elapsed < delay_duration

Running == {"initial_check", "loop_test", "sleep", "poll"}

\* the call, up to the breaker's first evaluation: start_time is taken and
\* the two durations are converted
delay_call(fn, delay_sec, check_interval) ==
    /\ delayCall.pc = "idle"
    /\ delayCall' = [IdleCall EXCEPT
                        !.fn = fn,
                        !.delay_sec = delay_sec,
                        !.check_interval = check_interval,
                        !.pc = IF DurationPanics(delay_sec) \/ DurationPanics(check_interval)
                               THEN "panicked" ELSE "initial_check"]
    /\ UNCHANGED <<graphVars, ctlVars, auxVars>>

\* the evaluation of the breaker before the loop
delay_initial_check(v) ==
    /\ delayCall.pc = "initial_check"
    /\ v \in BreakerResults(delayCall.fn)
    /\ LET return_now == IF delayCall.fn = "delay_with_breaker"
                          THEN InitialBreak(v) ELSE NotMatches(v) IN
       delayCall' = [delayCall EXCEPT
                        !.events = Append(@, v),
                        !.last_result = v,
                        !.returned = IF return_now /\ delayCall.fn # "delay_with_breaker"
                                     THEN v ELSE @,
                        !.check_count = 0,
                        !.pc = IF return_now THEN "done" ELSE "loop_test"]
    /\ UNCHANGED <<graphVars, ctlVars, auxVars>>

\* `while start_time.elapsed() < delay_duration`; when the test fails the
\* call returns self, or last_result for the generic variant
delay_loop_test ==
    /\ delayCall.pc = "loop_test"
    /\ IF StillWaiting(delayCall.elapsed, DurationFromSecs(delayCall.delay_sec))
       THEN delayCall' = [delayCall EXCEPT !.pc = "sleep"]
       ELSE delayCall' = [delayCall EXCEPT
                             !.pc = "done",
                             !.returned = IF delayCall.fn = "delay_with_breaker"
                                          THEN None ELSE delayCall.last_result]
    /\ UNCHANGED <<graphVars, ctlVars, auxVars>>

\* thread::sleep(check_duration); check_count += 1
delay_sleep ==
    /\ delayCall.pc = "sleep"
    /\ LET d == DurationFromSecs(delayCall.check_interval) IN
        /\ d > 0 \/ delayCall.spin < MaxSpin
        /\ delayCall' = [delayCall EXCEPT
                            !.elapsed = @ + d,
                            !.check_count = @ + 1,
                            !.events = Append(@, "sleep"),
                            !.spin = IF d > 0 THEN 0 ELSE @ + 1,
                            !.pc = "poll"]
    /\ UNCHANGED <<graphVars, ctlVars, auxVars>>

\* the evaluation of the breaker inside the loop; the generic variant
\* stores the value and goes on
delay_poll(v) ==
    /\ delayCall.pc = "poll"
    /\ v \in BreakerResults(delayCall.fn)
    /\ LET break_now == delayCall.fn = "delay_with_breaker" /\ PollBreak(v) IN
       delayCall' = [delayCall EXCEPT
                        !.events = Append(@, v),
                        !.last_result = v,
                        !.pc = IF break_now THEN "done" ELSE "loop_test"]
    /\ UNCHANGED <<graphVars, ctlVars, auxVars>>

\* The clock advances by one tick while the call is running. The clock is
\* monotonic and the loop takes time, so at most MaxSpin zero-length sleeps
\* fit between two ticks.
clock_tick ==
    /\ delayCall.pc \in Running
    /\ delayCall.elapsed < MaxElapsed
    /\ delayCall' = [delayCall EXCEPT !.elapsed = @ + 1, !.exact = FALSE, !.spin = 0]
    /\ UNCHANGED <<graphVars, ctlVars, auxVars>>

DelayFns == {"delay_with_breaker", "delay_with_breaker_match"}

DelaySteps ==
    \/ \E v \in {"true", "false", "go", "stop"} : delay_initial_check(v)
    \/ delay_loop_test
    \/ delay_sleep
    \/ \E v \in {"true", "false", "go", "stop"} : delay_poll(v)

NextDelay ==
    \/ \E fn \in DelayFns, d \in DelaySecs, i \in PollIntervals : delay_call(fn, d, i)
    \/ \E v \in {"true", "false", "go", "stop"} : delay_initial_check(v)
    \/ delay_loop_test
    \/ delay_sleep
    \/ \E v \in {"true", "false", "go", "stop"} : delay_poll(v)
    \/ clock_tick

SpecDelay == Init /\ [][NextDelay]_vars

\* The thread that runs the call is scheduled, the breaker and thread::sleep
\* return, and the clock keeps advancing.
SpecDelayFair == SpecDelay /\ WF_vars(DelaySteps) /\ WF_vars(clock_tick)
\* ---------------------------------------------------- CloseLoopController
\* The controller after new(None, None, None, None): no serial port and the
\* classic four motors. A caller opens and closes the port, replaces the
\* motor infos, sets speeds and sends commands; a write to an open port
\* succeeds or fails as the device decides.

\* The speeds a caller passes, as fractions like the multipliers: 1.5 and -5.
SpeedA == M(3, 2)
SpeedB == M(-5, 1)
SpeedVecs ==
    {<<>>, <<SpeedA>>, <<SpeedA, SpeedB>>, <<SpeedB, SpeedA>>, <<SpeedB, SpeedA, SpeedB>>,
     <<SpeedA, SpeedB, SpeedB, SpeedA>>, <<SpeedA, SpeedB, SpeedB, SpeedA, SpeedA>>}

\* The vectors a caller passes to set_motor_infos; the call checks nothing,
\* so a repeated motor is taken.
MotorInfoVecs ==
    {<<MotorInfo(1, 1), MotorInfo(2, -1)>>, <<MotorInfo(1, 1), MotorInfo(1, 1)>>,
     <<MotorInfo(7, -1)>>}

\* cmds::RESET and cmds::FULL_STOP
Cmds == {"RESET\r", "v0\r"}

\* Faulty variant of AdjustedSpeed: the product is rounded down
AdjustedSpeedFloor(speed, direction) ==
    IF speed.nan THEN 0 ELSE (speed.num * direction) \div speed.den

\* (speed * motor_info.direction as f64) as i32
AdjustedSpeed(speed, direction) ==
    IF speed.nan THEN 0 ELSE CastI32(speed.num * direction, speed.den)

\* format!("{}v{}\r", motor_info.code_sign, adjusted_speed)
Frame(code_sign, adjusted_speed) ==
    ToString(code_sign) \o "v" \o ToString(adjusted_speed) \o "\r"

\* the loop over motor_infos.iter().zip(speeds.iter()): one frame per pair,
\* in order, appended to one string
RECURSIVE BuildCommand(_, _, _)
BuildCommand(command, infos, speeds) ==
    IF infos = <<>> \/ speeds = <<>> THEN command
    ELSE BuildCommand(
             command \o Frame(Head(infos).code_sign,
                              AdjustedSpeed(Head(speeds), Head(infos).direction)),
             Tail(infos), Tail(speeds))

\* Faulty variant of LengthMismatch: only a longer vector is refused
LengthMismatchLonger(speeds_len, motors_len) == speeds_len > motors_len

\* speeds.len() != self.motor_infos.len()
LengthMismatch(speeds_len, motors_len) == speeds_len # motors_len

LengthError == "Length of speeds must equal the number of motors"

\* Faulty variant of DegradedResult: the call without a port says nothing
DegradedResultSilent(op, arg) ==
    [CtlRet(op, "Ok", arg) EXCEPT !.logs = {"debug"}]

\* the `else` of `if let Some(ref mut serial) = self.serial`: warn!(..) and
\* Ok(self)
DegradedResult(op, arg) ==
    [CtlRet(op, "Ok", arg) EXCEPT !.logs = {"debug", "warn"}]

\* Faulty variant of WriteErrorResult: the failed write is logged and the
\* call goes on to Ok(self)
WriteErrorResultSwallowed(op, arg) ==
    [CtlRet(op, "Ok", arg) EXCEPT !.logs = {"debug", "error"}, !.attempts = 1]

\* the Err(e) arm of `match serial.write_all(..)`: error!(..) and
\* return Err(e.into())
WriteErrorResult(op, arg) ==
    [CtlRet(op, "Err", arg) EXCEPT
        !.error = "io", !.logs = {"debug", "error"}, !.attempts = 1]

\* Option<Vec<MotorInfo>>, the first argument of new
NoInfos == [some |-> FALSE]
SomeInfos(infos) == [some |-> TRUE, v |-> infos]

\* The motor lists a caller passes to new: none, distinct motors, one motor
\* twice, and one identifier with two directions.
NewInfoArgs ==
    {NoInfos,
     SomeInfos(<<MotorInfo(1, 1), MotorInfo(2, -1)>>),
     SomeInfos(<<MotorInfo(1, 1), MotorInfo(1, 1)>>),
     SomeInfos(<<MotorInfo(1, 1), MotorInfo(2, 1), MotorInfo(1, -1)>>)}

\* motor_infos.unwrap_or_else(|| CLASSIC_MIS.to_vec())
UnwrapInfos(arg) == IF arg.some THEN arg.v ELSE CLASSIC_MIS

\* the loop of new over &motor_infos: unique_check.insert(motor_info) is
\* false when the set holds an equal MotorInfo, and MotorInfo derives Eq and
\* Hash over code_sign and direction
RECURSIVE DuplicateFound(_, _)
DuplicateFound(unique_check, infos) ==
    IF infos = <<>> THEN FALSE
    ELSE IF Head(infos) \in unique_check THEN TRUE
    ELSE DuplicateFound(unique_check \cup {Head(infos)}, Tail(infos))

UniqueError == "Motor infos must be unique"

\* CloseLoopController::new(motor_infos, None, None, port): with_port says
\* whether a port name is given, port_opens whether the system opens it. A
\* controller that is returned takes the place of the one the caller held.
CloseLoopController_new(arg, with_port, port_opens) ==
    /\ LET infos == UnwrapInfos(arg) IN
       IF DuplicateFound({}, infos)
       THEN /\ ctlResult' = [CtlRet("new", "Err", infos) EXCEPT
                                !.error = UniqueError,
                                !.logs = {"debug", "trace", "info", "error"}]
            /\ UNCHANGED <<serial, motor_infos>>
       ELSE IF with_port /\ ~port_opens
       THEN /\ ctlResult' = [CtlRet("new", "Err", infos) EXCEPT
                                !.error = "io",
                                !.logs = {"debug", "trace", "info", "error"}]
            /\ UNCHANGED <<serial, motor_infos>>
       ELSE /\ ctlResult' = [CtlRet("new", "Ok", infos) EXCEPT
                                !.logs = {"debug", "trace", "info"},
                                !.opened = IF with_port THEN 1 ELSE 0]
            /\ serial' = IF with_port THEN "port" ELSE None
            /\ motor_infos' = infos
    /\ UNCHANGED <<graphVars, auxVars, delayCall, wire>>

\* CloseLoopController::open(port): the port opens or the system refuses
open(port_opens) ==
    /\ IF port_opens
       THEN /\ serial' = "port"
            /\ ctlResult' = [CtlRet("open", "Ok", <<>>) EXCEPT
                                !.logs = {"info", "debug"}, !.opened = 1]
       ELSE /\ serial' = serial
            /\ ctlResult' = [CtlRet("open", "Err", <<>>) EXCEPT
                                !.error = "io", !.logs = {"info", "debug", "error"}]
    /\ UNCHANGED <<graphVars, auxVars, delayCall, motor_infos, wire>>

\* CloseLoopController::close()
close ==
    /\ serial' = None
    /\ ctlResult' = [CtlRet("close", "Ok", <<>>) EXCEPT
                        !.logs = IF serial # None THEN {"info", "debug"} ELSE {"warn"}]
    /\ UNCHANGED <<graphVars, auxVars, delayCall, motor_infos, wire>>

\* CloseLoopController::set_motor_infos(motor_infos)
set_motor_infos(new_infos) ==
    /\ motor_infos' = new_infos
    /\ ctlResult' = [CtlRet("set_motor_infos", "Ok", <<>>) EXCEPT !.logs = {"info", "debug"}]
    /\ UNCHANGED <<graphVars, auxVars, delayCall, serial, wire>>

\* CloseLoopController::set_motors_speed(speeds); write_ok is the outcome
\* of serial.write_all, should the call reach it
set_motors_speed(speeds, write_ok) ==
    /\ Len(wire) < MaxWrites
    /\ IF LengthMismatch(Len(speeds), Len(motor_infos))
       THEN /\ wire' = wire
            /\ ctlResult' = [CtlRet("set_motors_speed", "Err", speeds) EXCEPT
                                !.error = LengthError, !.logs = {"debug", "error"},
                                !.wrote = Len(wire') - Len(wire)]
       ELSE IF serial # None
       THEN LET command == BuildCommand("", motor_infos, speeds) IN
            IF write_ok
            THEN /\ wire' = Append(wire, command)
                 /\ ctlResult' = [CtlRet("set_motors_speed", "Ok", speeds) EXCEPT
                                     !.logs = {"debug", "trace", "info"},
                                     !.attempts = 1,
                                     !.wrote = Len(wire') - Len(wire)]
            ELSE /\ wire' = wire
                 /\ ctlResult' = [WriteErrorResult("set_motors_speed", speeds) EXCEPT
                                     !.logs = @ \cup {"trace"},
                                     !.wrote = Len(wire') - Len(wire)]
       ELSE /\ wire' = wire
            /\ ctlResult' = [DegradedResult("set_motors_speed", speeds) EXCEPT
                                !.wrote = Len(wire') - Len(wire)]
    /\ UNCHANGED <<graphVars, auxVars, delayCall, serial, motor_infos>>

\* CloseLoopController::send_cmd(cmd)
send_cmd(cmd, write_ok) ==
    /\ Len(wire) < MaxWrites
    /\ IF serial # None
       THEN IF write_ok
            THEN /\ wire' = Append(wire, cmd)
                 /\ ctlResult' = [CtlRet("send_cmd", "Ok", cmd) EXCEPT
                                     !.logs = {"debug", "trace"},
                                     !.attempts = 1,
                                     !.wrote = Len(wire') - Len(wire)]
            ELSE /\ wire' = wire
                 /\ ctlResult' = [WriteErrorResult("send_cmd", cmd) EXCEPT
                                     !.wrote = Len(wire') - Len(wire)]
       ELSE /\ wire' = wire
            /\ ctlResult' = [DegradedResult("send_cmd", cmd) EXCEPT
                                !.wrote = Len(wire') - Len(wire)]
    /\ UNCHANGED <<graphVars, auxVars, delayCall, serial, motor_infos>>

NextController ==
    \/ \E arg \in NewInfoArgs, with_port \in BOOLEAN, port_opens \in BOOLEAN :
            CloseLoopController_new(arg, with_port, port_opens)
    \/ \E port_opens \in BOOLEAN : open(port_opens)
    \/ close
    \/ \E new_infos \in MotorInfoVecs : set_motor_infos(new_infos)
    \/ \E speeds \in SpeedVecs, write_ok \in BOOLEAN : set_motors_speed(speeds, write_ok)
    \/ \E cmd \in Cmds, write_ok \in BOOLEAN : send_cmd(cmd, write_ok)

SpecController == Init /\ [][NextController]_vars

\* --------------------------------------------------- movement constructors
\* MovementConfig::default()
TrackWidth == 100
DiagonalMultiplier == F64Div(153, 100)

TurnDirections == {"Left", "Right"}
FixedAxes == {"FrontLeft", "RearLeft", "RearRight", "FrontRight"}

\* The arguments the constructors are called with: radii are f64 values that
\* are whole and not negative, speeds are i32 values below 2^17 in magnitude
Radii == {0, 1, 7, 57, 100, 250}
OuterSpeeds == {-200, -107, -1, 0, 107, 157, 200}
DriftSpeeds == {-1000, -101, -100, -3, -1, 0, 1, 3, 50, 100, 101, 1000}

AbsI32(n) == IF n < 0 THEN -n ELSE n

\* (radius / (radius + config.track_width) * outer_speed as f64) as i32
InnerSpeed(radius, outer_speed) ==
    F64ToI32(outer_speed < 0,
             F64MulNat(F64Div(radius, radius + TrackWidth), AbsI32(outer_speed)))

\* (speed as f64 * config.diagonal_multiplier) as i32
DiagonalSpeed(speed) ==
    F64ToI32(speed < 0, F64MulNat(DiagonalMultiplier, AbsI32(speed)))

\* the match of differential on direction
DifferentialPattern(direction, radius, outer_speed) ==
    LET inner_speed == InnerSpeed(radius, outer_speed) IN
    IF direction = "Left"
    THEN LeftRight(inner_speed, outer_speed)
    ELSE LeftRight(outer_speed, inner_speed)

\* the match of drift on fixed_axis
DriftPattern(fixed_axis, speed) ==
    LET diagonal_speed == DiagonalSpeed(speed) IN
    CASE fixed_axis = "FrontLeft" -> Individual(0, speed, diagonal_speed, speed)
      [] fixed_axis = "RearLeft" -> Individual(speed, 0, speed, diagonal_speed)
      [] fixed_axis = "RearRight" -> Individual(diagonal_speed, speed, 0, speed)
      [] fixed_axis = "FrontRight" -> Individual(speed, diagonal_speed, speed, 0)

\* Self::new(pattern) at the end of a movement constructor: the state takes
\* the next id and is returned to the caller
MovementState_new(op, arg, pattern) ==
    /\ STATE_ID_COUNTER < MaxMoveStates
    /\ LET id == STATE_ID_COUNTER IN
        /\ STATE_ID_COUNTER' = FetchAddNew(STATE_ID_COUNTER)
        /\ stateIdLog' = Append(stateIdLog, id)
        /\ states' = states \cup {MovingStateValue(id, pattern)}
        /\ result' = Ret(op, "Ok", arg, SomeState(MovingStateValue(id, pattern)))
    /\ UNCHANGED <<TRANSITION_ID_COUNTER, built, transitions, refPool,
                   transitionIdLog, threadVars, otherVars>>

\* MovingState::differential(direction, radius, outer_speed)
differential(direction, radius, outer_speed) ==
    MovementState_new("differential",
                      [direction |-> direction, radius |-> radius,
                       outer_speed |-> outer_speed],
                      DifferentialPattern(direction, radius, outer_speed))

\* MovingState::drift(fixed_axis, speed)
drift(fixed_axis, speed) ==
    MovementState_new("drift", [fixed_axis |-> fixed_axis, speed |-> speed],
                      DriftPattern(fixed_axis, speed))

NextMoves ==
    \/ \E direction \in TurnDirections, radius \in Radii, outer_speed \in OuterSpeeds :
            differential(direction, radius, outer_speed)
    \/ \E fixed_axis \in FixedAxes, speed \in DriftSpeeds : drift(fixed_axis, speed)

SpecMoves == Init /\ [][NextMoves]_vars

\* ------------------------------------------------------------ TagDetector
\* The owner thread calls the detector's methods one at a time; a method is a
\* sequence of lock-and-write statements, and the detection threads run
\* between them.
OwnerIdle == detectorCall.pc = "idle"

Alive(thread) == thread.pc # "exited"

\* TagDetector::open_camera(device_id). A camera held before is released
\* first; the device opens or not, and a camera that opened is kept also
\* when setting it up (buffer size, frame centre) fails.
open_camera(opens, configures) ==
    /\ OwnerIdle
    /\ camera' = opens
    /\ detectorCall' =
          DetectorIdle("open_camera", IF opens /\ configures THEN "Ok" ELSE "Err")
    /\ UNCHANGED <<graphVars, delayCall, ctlVars, sensorVars, continue_detection,
                   halt_detection, tag_id, detectThreads>>

\* TagDetector::release_camera()
release_camera ==
    /\ OwnerIdle
    /\ camera' = FALSE
    /\ detectorCall' = DetectorIdle("release_camera", "Ok")
    /\ UNCHANGED <<graphVars, delayCall, ctlVars, sensorVars, continue_detection,
                   halt_detection, tag_id, detectThreads>>

\* apriltag_detect_start, up to *self.continue_detection.lock().unwrap() = true
apriltag_detect_start ==
    /\ OwnerIdle
    /\ Len(detectThreads) < MaxDetectThreads
    /\ IF ~camera
       THEN /\ detectorCall' = DetectorIdle("apriltag_detect_start", "Err")
            /\ UNCHANGED <<continue_detection, detectThreads>>
       ELSE /\ continue_detection' = TRUE
            /\ detectThreads' =
                  [i \in DOMAIN detectThreads |->
                      IF Alive(detectThreads[i]) /\ detectThreads[i].fate = "ended"
                      THEN [detectThreads[i] EXCEPT !.fate = "restarted"]
                      ELSE detectThreads[i]]
            /\ detectorCall' = DetectorIn("apriltag_detect_start", "set_halt")
    /\ UNCHANGED <<graphVars, delayCall, ctlVars, sensorVars, camera,
                   halt_detection, tag_id>>

\* *self.halt_detection.lock().unwrap() = false
apriltag_detect_start_set_halt ==
    /\ detectorCall = DetectorIn("apriltag_detect_start", "set_halt")
    /\ halt_detection' = FALSE
    /\ detectorCall' = DetectorIn("apriltag_detect_start", "spawn")
    /\ UNCHANGED <<graphVars, delayCall, ctlVars, sensorVars, camera,
                   continue_detection, tag_id, detectThreads>>

\* thread::spawn(..) and Ok(self)
apriltag_detect_start_spawn ==
    /\ detectorCall = DetectorIn("apriltag_detect_start", "spawn")
    /\ detectThreads' = Append(detectThreads, SpawnedThread)
    /\ detectorCall' = DetectorIdle("apriltag_detect_start", "Ok")
    /\ UNCHANGED <<graphVars, delayCall, ctlVars, sensorVars, camera,
                   continue_detection, halt_detection, tag_id>>

\* apriltag_detect_end: *self.continue_detection.lock().unwrap() = false
apriltag_detect_end ==
    /\ OwnerIdle
    /\ continue_detection' = FALSE
    /\ detectorCall' = DetectorIn("apriltag_detect_end", "set_tag_id")
    /\ UNCHANGED <<graphVars, delayCall, ctlVars, sensorVars, camera,
                   halt_detection, tag_id, detectThreads>>

\* *self.tag_id.lock().unwrap() = self.config.default_tag_id, and the return
apriltag_detect_end_set_tag_id ==
    /\ detectorCall = DetectorIn("apriltag_detect_end", "set_tag_id")
    /\ tag_id' = DefaultTagId
    /\ detectThreads' =
          [i \in DOMAIN detectThreads |->
              IF Alive(detectThreads[i]) /\ detectThreads[i].fate = "started"
              THEN [detectThreads[i] EXCEPT !.fate = "ended"]
              ELSE detectThreads[i]]
    /\ detectorCall' = DetectorIdle("apriltag_detect_end", "Ok")
    /\ UNCHANGED <<graphVars, delayCall, ctlVars, sensorVars, camera,
                   continue_detection, halt_detection>>

\* halt_detection(): *self.halt_detection.lock().unwrap() = true
halt_detection_call ==
    /\ OwnerIdle
    /\ halt_detection' = TRUE
    /\ detectorCall' = DetectorIn("halt_detection", "set_tag_id")
    /\ UNCHANGED <<graphVars, delayCall, ctlVars, sensorVars, camera,
                   continue_detection, tag_id, detectThreads>>

\* *self.tag_id.lock().unwrap() = self.config.default_tag_id, and the return
halt_detection_set_tag_id ==
    /\ detectorCall = DetectorIn("halt_detection", "set_tag_id")
    /\ tag_id' = DefaultTagId
    /\ detectorCall' = DetectorIdle("halt_detection", "Ok")
    /\ UNCHANGED <<graphVars, delayCall, ctlVars, sensorVars, camera,
                   continue_detection, halt_detection, detectThreads>>

\* resume_detection()
resume_detection ==
    /\ OwnerIdle
    /\ halt_detection' = FALSE
    /\ detectorCall' = DetectorIdle("resume_detection", "Ok")
    /\ UNCHANGED <<graphVars, delayCall, ctlVars, sensorVars, camera,
                   continue_detection, tag_id, detectThreads>>

\* One statement of detection thread i, the closure passed to thread::spawn:
\*   check_continue  if !*continue_detection.lock().unwrap() { break; }
\*   check_halt      if *halt_detection.lock().unwrap() { sleep; continue; }
\*   halt_sleep      thread::sleep(check_interval)
\*   detect          *tag_id.lock().unwrap() = default_tag_id
\*   frame_sleep     thread::sleep(Duration::from_millis(33))
ThreadGoes(i, to) == detectThreads' = [detectThreads EXCEPT ![i].pc = to]

detection_thread(i) ==
    /\ i \in DOMAIN detectThreads
    /\ LET pc_i == detectThreads[i].pc IN
       \/ /\ pc_i = "check_continue"
          /\ ThreadGoes(i, IF ~continue_detection THEN "exited" ELSE "check_halt")
          /\ UNCHANGED tag_id
       \/ /\ pc_i = "check_halt"
          /\ ThreadGoes(i, IF halt_detection THEN "halt_sleep" ELSE "detect")
          /\ UNCHANGED tag_id
       \/ /\ pc_i = "halt_sleep"
          /\ ThreadGoes(i, "check_continue")
          /\ UNCHANGED tag_id
       \/ /\ pc_i = "detect"
          /\ tag_id' = DefaultTagId
          /\ ThreadGoes(i, "frame_sleep")
       \/ /\ pc_i = "frame_sleep"
          /\ ThreadGoes(i, "check_continue")
          /\ UNCHANGED tag_id
    /\ UNCHANGED <<graphVars, delayCall, ctlVars, sensorVars, camera,
                   continue_detection, halt_detection, detectorCall>>

\* The statements that finish a call the owner is in
DetectorCallSteps ==
    \/ apriltag_detect_start_set_halt
    \/ apriltag_detect_start_spawn
    \/ apriltag_detect_end_set_tag_id
    \/ halt_detection_set_tag_id

NextDetect ==
    \/ \E opens \in BOOLEAN, configures \in BOOLEAN : open_camera(opens, configures)
    \/ release_camera
    \/ apriltag_detect_start
    \/ apriltag_detect_end
    \/ halt_detection_call
    \/ resume_detection
    \/ DetectorCallSteps
    \/ \E i \in 1..MaxDetectThreads : detection_thread(i)

SpecDetect == Init /\ [][NextDetect]_vars

\* Every spawned thread keeps being scheduled and its sleeps end, and a call
\* the owner is in runs to its return; which calls the owner makes is free.
SpecDetectFair ==
    /\ SpecDetect
    /\ \A i \in 1..MaxDetectThreads : WF_vars(detection_thread(i))
    /\ WF_vars(DetectorCallSteps)

\* ------------------------------------------------------------------ Menta
\* The sampler vectors a Menta is built with
SamplerVecs ==
    {<<>>,
     <<SequenceSampler(<<10, 11>>)>>,
     <<SequenceSampler(<<10, 11>>), IndexedSampler(20), DirectSampler(5)>>}

\* The usage lists passed to construct_updater: empty, one usage, two usages
UsedSamplerIndexes == 0..MaxSamplerIndex
RequiredDataIndexes == {<<>>, <<0>>, <<2>>, <<1, 0>>}
Usages ==
    {SamplerUsage(i, r) : i \in UsedSamplerIndexes, r \in RequiredDataIndexes}
UsageLists ==
    {<<>>} \cup {<<u>> : u \in Usages}
           \cup {<<u, v>> : u \in Usages,
                            v \in {SamplerUsage(0, <<>>), SamplerUsage(MaxSamplerIndex, <<0>>)}}

\* Menta::new(samplers)
Menta_new(new_samplers) ==
    /\ samplers' = new_samplers
    /\ updater' = NoUpdater
    /\ updated' = NotCalled
    /\ UNCHANGED <<graphVars, delayCall, ctlVars, tagVars>>

\* resolve_seq_sampler, resolve_idx_sampler, resolve_drc_sampler
resolve_sampler(usages, sampler, required_data_indexes) ==
    IF Len(required_data_indexes) = 0
    THEN IF sampler.kind = "Sequence"
         THEN UpdaterOk(usages, "Sequence", sampler, required_data_indexes)
         ELSE IF sampler.kind = "Indexed"
         THEN UpdaterErr(usages, "Must specify at least one required data index")
         ELSE UpdaterOk(usages, "Single", sampler, required_data_indexes)
    ELSE IF Len(required_data_indexes) = 1
    THEN UpdaterOk(usages, "Single", sampler, required_data_indexes)
    ELSE UpdaterOk(usages, "Sequence", sampler, required_data_indexes)

\* Faulty variant of SamplerIndexOutOfBounds: the index one past the end
\* passes the test
SamplerIndexOutOfBoundsOffByOne(used_sampler_index, len) ==
    used_sampler_index > len

\* usage.used_sampler_index >= self.samplers.len()
SamplerIndexOutOfBounds(used_sampler_index, len) ==
    used_sampler_index >= len

\* Faulty variant of UsageBuiltFrom: the updater is built from the last usage
UsageBuiltFromLast(usages) == usages[Len(usages)]

\* let usage = &usages[0]
UsageBuiltFrom(usages) == usages[1]

\* what Menta::construct_updater(usages) returns
UpdaterResult(usages) ==
    IF usages = <<>>
    THEN UpdaterErr(usages, "Can't resolve the empty usage list")
    ELSE LET usage == UsageBuiltFrom(usages) IN
         IF SamplerIndexOutOfBounds(usage.used_sampler_index, Len(samplers))
         THEN UpdaterErr(usages, "Sampler index out of bounds")
         ELSE IF usage.used_sampler_index + 1 \notin DOMAIN samplers
         THEN UpdaterPanic(usages)
         ELSE resolve_sampler(usages, samplers[usage.used_sampler_index + 1],
                              usage.required_data_indexes)

\* Menta::construct_updater(usages)
construct_updater(usages) ==
    /\ updater' = UpdaterResult(usages)
    /\ updated' = NotCalled
    /\ UNCHANGED <<graphVars, delayCall, ctlVars, tagVars, samplers>>

\* One datum of a sampler, as the closures read it: data[i] of a sequence
\* (a panic past its end), f(i) of an indexed sampler, bit i of a direct one
Datum(sampler, i) ==
    IF sampler.kind = "Sequence" THEN sampler.data[i + 1]
    ELSE IF sampler.kind = "Indexed" THEN sampler.data[1] + i
    ELSE (sampler.data[1] \div (2 ^ i)) % 2

DatumPanics(sampler, i) ==
    sampler.kind = "Sequence" /\ i >= Len(sampler.data)

\* What a call of the closure c gives
ClosureOutput(c) ==
    IF c.indexes = <<>>
    THEN Sampled(c.sampler.data)
    ELSE IF \E k \in 1..Len(c.indexes) : DatumPanics(c.sampler, c.indexes[k])
    THEN SamplePanic
    ELSE Sampled([k \in 1..Len(c.indexes) |-> Datum(c.sampler, c.indexes[k])])

\* A call of the closure construct_updater returned
call_updater ==
    /\ updater.outcome = "Ok"
    /\ updated' = ClosureOutput(updater)
    /\ UNCHANGED <<graphVars, delayCall, ctlVars, tagVars, samplers, updater>>

NextMenta ==
    \/ \E new_samplers \in SamplerVecs : Menta_new(new_samplers)
    \/ \E usages \in UsageLists : construct_updater(usages)
    \/ call_updater

SpecMenta == Init /\ [][NextMenta]_vars

\* ------------------------------------------------------------- properties
\* Reference definitions of the graph's degrees, stated over the slots of
\* the pool rather than computed by a pass over it.
PoolOf(pool) == {pool[i] : i \in DOMAIN pool}
SourceIds(pool) ==
    UNION {{pool[i].from_states[j].id : j \in DOMAIN pool[i].from_states} :
              i \in DOMAIN pool}
DestIds(pool) ==
    UNION {{pool[i].to_states[k].id : k \in DOMAIN pool[i].to_states} :
              i \in DOMAIN pool}
ReferencedIds(pool) == SourceIds(pool) \cup DestIds(pool)
InDegree(pool, s) ==
    Cardinality(UNION {{<<i, k>> : k \in {x \in DOMAIN pool[i].to_states :
                                              pool[i].to_states[x].id = s}} :
                          i \in DOMAIN pool})
OutDegree(pool, s) ==
    Cardinality({i \in DOMAIN pool :
        \E j \in DOMAIN pool[i].from_states : pool[i].from_states[j].id = s})
SomethingRemoved == Cardinality(built) + Len(transitions) < TRANSITION_ID_COUNTER
PoolMutations ==
    {"add_transition", "remove_transition", "extend_transitions", "clear_transitions"}

\* C1: after any sequence of pool operations, start_states() is exactly the
\* set of ids referenced by the transitions now in the pool whose in-degree,
\* counted over the pool as it is now, is 0.
C1_StartStatesAreInDegreeZero ==
    start_states(transitions) =
        {s \in ReferencedIds(transitions) : InDegree(transitions, s) = 0}

\* C1 witness: a transition has been removed, and the pool that is left has
\* a start state and a referenced state that is not one.
C1_Witness ==
    /\ result.op = "remove_transition"
    /\ SomethingRemoved
    /\ start_states(transitions) # {}
    /\ ReferencedIds(transitions) \ start_states(transitions) # {}

\* C2: validate() returns Ok if and only if exactly one referenced state has
\* in-degree 0; it returns an error for the empty pool and for a pool with
\* two or more start states.
C2_ValidateIffOneStart ==
    result.op = "validate" =>
        /\ (result.outcome = "Ok") <=>
               (Cardinality({s \in ReferencedIds(transitions) :
                                InDegree(transitions, s) = 0}) = 1)
        /\ transitions = <<>> => result.outcome = "Err"
        /\ result.outcome \in {"Ok", "Err"}

\* C2 witness: validate() has returned Ok on a pool of two transitions.
C2_Witness ==
    /\ result.op = "validate"
    /\ result.outcome = "Ok"
    /\ Len(transitions) = 2

\* C3: if s is in start_states() and add_transition then adds a transition
\* that names s as a destination, s is not in start_states() afterwards.
C3_AddRemovesFormerStart ==
    [][\A t \in built :
         (add_transition(t) /\ transitions' # transitions) =>
             \A s \in start_states(transitions) \cap DestIds(<<t>>) :
                 s \notin start_states(transitions')]_vars

\* C3, its case: a transition the caller holds names, as a destination, a
\* start state of the pool. A MovingState is moved into the one slot that
\* holds it, so no reachable state satisfies this.
C3_Case ==
    \E t \in built : start_states(transitions) \cap DestIds(<<t>>) # {}

\* No transition a caller holds names a state the pool references.
C3_CaseNeverHappens ==
    \A t \in built : ReferencedIds(<<t>>) \cap ReferencedIds(transitions) = {}

\* C4: a pool of N >= 1 linearly chained transitions (each has one source
\* and one destination, and the destination of each is the source of the
\* next) has exactly one start state, exactly one end state, and validate()
\* succeeds on it.
IsLinearChain(pool) ==
    /\ Len(pool) >= 1
    /\ \A i \in DOMAIN pool :
        /\ Len(pool[i].from_states) = 1
        /\ Cardinality(DOMAIN pool[i].to_states) = 1
    /\ \A i \in 1..(Len(pool) - 1) :
        \E k \in DOMAIN pool[i].to_states :
            pool[i].to_states[k].id = pool[i + 1].from_states[1].id
C5_EndStatesAreOutDegreeZero ==
    end_states(transitions) =
        {s \in ReferencedIds(transitions) : OutDegree(transitions, s) = 0}

\* C5 witness: a transition has been removed, and the pool that is left has
\* an end state and a referenced state that is not one.
C5_Witness ==
    /\ result.op = "remove_transition"
    /\ SomethingRemoved
    /\ Len(transitions) >= 1
    /\ end_states(transitions) # {}
    /\ ReferencedIds(transitions) \ end_states(transitions) # {}

\* C6: the pool equals the reference sequence: add appends at the end,
\* extend appends in the given order, clear yields the empty sequence, and
\* remove deletes the transitions with the given id and keeps the others in
\* their order.
C6_PoolIsReferenceSequence == transitions = refPool

\* C6 witness: the middle one of three transitions has been removed, and
\* the two that are left are not in the order of their ids.
C6_Witness ==
    /\ result.op = "remove_transition"
    /\ Len(transitions) = 2
    /\ SomethingRemoved
    /\ transitions[1].id > transitions[2].id

\* C7: the pool mutations always succeed, also when the pool they leave has
\* zero or several start states, and validate() answers such a pool with an
\* error value.
C7_OnlyValidateReportsStructure ==
    /\ result.op \in PoolMutations => result.outcome = "Ok"
    /\ (result.op = "validate" /\ Cardinality(start_states(transitions)) # 1)
           => result.outcome = "Err"

\* C7 witness: a mutation has succeeded and left a pool with several start
\* states.
C7_Witness ==
    /\ result.op \in {"add_transition", "extend_transitions"}
    /\ result.outcome = "Ok"
    /\ Cardinality(start_states(transitions)) >= 2

\* C8: MovingTransition::new(duration) fails and returns no transition when
\* duration < 0; for every duration >= 0 it succeeds with that duration, no
\* breaker, check_interval 0.01, no source and no destination.
C8_NewChecksDuration ==
    result.op = "MovingTransition::new" =>
        /\ FLt(result.arg, F(0)) =>
               /\ result.outcome = "Err"
               /\ result.value = NoTransition
        /\ FGe(result.arg, F(0)) =>
               /\ result.outcome = "Ok"
               /\ result.value.some
               /\ result.value.v.duration = result.arg
               /\ result.value.v.breaker = None
               /\ result.value.v.check_interval = F(10)
               /\ result.value.v.from_states = <<>>
               /\ DOMAIN result.value.v.to_states = {}
               /\ result.value.v \in built

\* C8 witness: new(0) has succeeded before, and a call with a negative
\* duration has just failed.
C8_Witness ==
    /\ result.op = "MovingTransition::new"
    /\ result.outcome = "Err"
    /\ \E t \in built : t.duration = F(0)

\* C9: no MovingTransition, held by a caller or by the pool, ever has a
\* negative duration.
C9_DurationNeverNegative ==
    \A t \in built \cup PoolOf(transitions) : ~FLt(t.duration, F(0))

\* C10: the ids handed out by each allocator are pairwise distinct and
\* strictly increasing in the order of the fetch_add calls, whatever the
\* interleaving of the constructing threads; every id a state or transition
\* holds is one of them, and two constructors in progress hold different ids.
StrictlyIncreasing(log) ==
    \A i \in DOMAIN log : \A j \in DOMAIN log : i < j => log[i] < log[j]
C10_IdsDistinctAndIncreasing ==
    /\ StrictlyIncreasing(stateIdLog)
    /\ StrictlyIncreasing(transitionIdLog)
    /\ \A a \in Threads : \A b \in Threads :
        (a # b /\ pc[a] = pc[b] /\ pc[a] # "idle") => local[a].id # local[b].id
    /\ \A a \in Threads : pc[a] = "state_built" =>
        \A s \in states : s.id # local[a].id
    /\ \A a \in Threads : pc[a] = "transition_built" =>
        \A t \in built : t.id # local[a].id

\* C10 witness: two threads are inside the same constructor at once, and
\* the one that took its id later has not yet been overtaken.
C10_Witness ==
    /\ pc[1] = "state_built"
    /\ pc[2] = "state_built"
    /\ local[2].id < local[1].id
    /\ Len(transitionIdLog) >= 2

\* C11: equality of MovingState depends on the id alone: two states built by
\* separate constructor calls are unequal even when their speed patterns are
\* identical, and a state that with_multiplier returns with another pattern
\* is equal to the state that was passed in.
C11_EqualityIsById ==
    /\ Cardinality(states) = Len(stateIdLog)
    /\ \A a \in states : \A b \in states :
        IF a = b THEN MovingStateEq(a, b) ELSE ~MovingStateEq(a, b)
    /\ result.op = "with_multiplier" =>
        /\ result.value.v \in states
        /\ MovingStateEq(result.arg, result.value.v)
        /\ \A s \in states \ {result.value.v} : ~MovingStateEq(result.arg, s)

\* C11 witness: with_multiplier has just changed the pattern of a state, and
\* two states built by separate calls hold identical patterns.
C11_Witness ==
    /\ result.op = "with_multiplier"
    /\ result.arg.speed_pattern # result.value.v.speed_pattern
    /\ \E a \in states : \E b \in states :
        a.id # b.id /\ a.speed_pattern = b.speed_pattern

\* The reference reading of a builder log.
FromCalls(log) == SelectSeq(log, LAMBDA c : c.op = "with_from_state")
ToCallsFor(log, key) ==
    {i \in DOMAIN log : log[i].op = "with_to_state" /\ log[i].key = key}
LastCall(calls) == CHOOSE i \in calls : \A j \in calls : j <= i
KeysPassed(log) ==
    {log[i].key : i \in {j \in DOMAIN log : log[j].op = "with_to_state"}}

\* C12: after any sequence of builder calls, to_states maps each label to
\* the state passed by the last with_to_state call for that label and has
\* no other label, from_states holds every state passed to with_from_state
\* in call order, and the id and the duration are unchanged by with_breaker,
\* with_check_interval, with_from_state and with_to_state.
C12_BuilderAccumulates ==
    /\ \A t \in built :
        LET log == LogOf(builderLog, t.id) IN
        /\ DOMAIN t.to_states = KeysPassed(log)
        /\ \A k \in DOMAIN t.to_states :
            t.to_states[k] = log[LastCall(ToCallsFor(log, k))].state
        /\ Len(t.from_states) = Len(FromCalls(log))
        /\ \A i \in DOMAIN t.from_states : t.from_states[i] = FromCalls(log)[i].state
        /\ \A i \in DOMAIN log : log[i].id = t.id /\ log[i].duration = t.duration
    /\ result.op \in {"with_breaker", "with_check_interval"} =>
        /\ result.value.v \in built
        /\ result.value.v.id = result.arg.id
        /\ result.value.v.duration = result.arg.duration
        /\ result.value.v.from_states = result.arg.from_states
        /\ result.value.v.to_states = result.arg.to_states

\* C12 witness: one label of a transition has been overwritten, another
\* label is in place, a breaker is installed, and with_check_interval has
\* then changed the interval.
C12_Witness ==
    /\ result.op = "with_check_interval"
    /\ \E k \in DOMAIN result.value.v.to_states :
        Cardinality(ToCallsFor(LogOf(builderLog, result.value.v.id), k)) >= 2
    /\ Cardinality(DOMAIN result.value.v.to_states) = 2
    /\ result.value.v.breaker # None
    /\ result.value.v.check_interval # result.arg.check_interval

\* Readings of a delay call's events.
IsSleep(e) == e = "sleep"
Evaluations(ev) == SelectSeq(ev, LAMBDA e : ~IsSleep(e))
Sleeps(ev) == SelectSeq(ev, LAMBDA e : IsSleep(e))
Alternates(ev) ==
    \A i \in DOMAIN ev : IsSleep(ev[i]) <=> (i % 2 = 0)
IsBoolCall == delayCall.fn = "delay_with_breaker"
IsMatchCall == delayCall.fn = "delay_with_breaker_match"
DelayTicks == DurationFromSecs(delayCall.delay_sec)
IntervalTicks == DurationFromSecs(delayCall.check_interval)
Ceil(a, b) == (a + b - 1) \div b

\* C13: delay_with_breaker evaluates the breaker exactly once before any
\* sleep; if that first evaluation returns true the call has returned
\* without sleeping and without evaluating the breaker again, whatever the
\* delay and the interval.
C13_FirstEvaluationBeforeAnySleep ==
    IsBoolCall =>
        LET ev == delayCall.events IN
        /\ delayCall.pc \in {"loop_test", "sleep", "poll", "done"} => Len(ev) >= 1
        /\ ev # <<>> => ~IsSleep(ev[1])
        /\ Len(ev) >= 2 => IsSleep(ev[2])
        /\ (ev # <<>> /\ ev[1] = "true") =>
            /\ ev = <<"true">>
            /\ delayCall.pc = "done"
            /\ delayCall.check_count = 0

\* C13 witness: the first evaluation was true and the call has returned,
\* with a delay of four ticks still ahead.
C13_Witness ==
    /\ IsBoolCall
    /\ delayCall.pc = "done"
    /\ delayCall.events = <<"true">>
    /\ delayCall.delay_sec = F(4)
    /\ delayCall.elapsed < 4

\* C14: when the first evaluation is false, sleeps and evaluations
\* alternate strictly, one evaluation after each sleep; the call returns
\* right after the first true evaluation or at a loop test where the
\* elapsed time has reached the delay; on return the evaluations are one
\* more than the sleeps; nothing follows a true evaluation.
C14_SleepThenOneEvaluation ==
    (IsBoolCall /\ delayCall.events # <<>> /\ delayCall.events[1] = "false") =>
        LET ev == delayCall.events IN
        /\ Alternates(ev)
        /\ \A i \in DOMAIN ev : ev[i] = "true" => i = Len(ev)
        /\ ev[Len(ev)] = "true" => delayCall.pc = "done"
        /\ delayCall.check_count = Len(Sleeps(ev))
        /\ delayCall.pc = "done" =>
            /\ Len(Evaluations(ev)) = Len(Sleeps(ev)) + 1
            /\ ev[Len(ev)] = "true" \/ delayCall.elapsed >= DelayTicks
        /\ (delayCall.pc = "sleep" /\ delayCall.exact) => delayCall.elapsed < DelayTicks

\* C14 witness: false, sleep, false, sleep, true, and the call has returned
\* before the delay elapsed.
C14_Witness ==
    /\ IsBoolCall
    /\ delayCall.pc = "done"
    /\ delayCall.events = <<"false", "sleep", "false", "sleep", "true">>
    /\ delayCall.elapsed < DelayTicks

\* C15: with a breaker that is always false, a positive interval and sleeps
\* that last exactly one interval, the call performs ceil(delay/interval)
\* sleeps and returns with delay <= elapsed < delay + interval; for
\* delay = 4 x interval the elapsed time lies in [delay, delay + interval].
C15_RoundsUpToWholeIntervals ==
    (/\ IsBoolCall
     /\ delayCall.pc = "done"
     /\ delayCall.exact
     /\ IntervalTicks > 0
     /\ \A i \in DOMAIN delayCall.events : delayCall.events[i] # "true") =>
        /\ Len(Sleeps(delayCall.events)) = Ceil(DelayTicks, IntervalTicks)
        /\ delayCall.elapsed = Ceil(DelayTicks, IntervalTicks) * IntervalTicks
        /\ delayCall.elapsed >= DelayTicks
        /\ delayCall.elapsed < DelayTicks + IntervalTicks
        /\ DelayTicks = 4 * IntervalTicks =>
            delayCall.elapsed \in DelayTicks..(DelayTicks + IntervalTicks)

\* C15 witness: a delay of four intervals has been waited out in four
\* exact sleeps.
C15_Witness ==
    /\ IsBoolCall
    /\ delayCall.pc = "done"
    /\ delayCall.exact
    /\ delayCall.delay_sec = F(4)
    /\ delayCall.check_interval = F(1)
    /\ Len(Sleeps(delayCall.events)) = 4
    /\ \A i \in DOMAIN delayCall.events : delayCall.events[i] # "true"

\* A call has returned, and if its breaker was never true it has waited out
\* the delay.
ReturnedAfterDelay ==
    /\ delayCall.pc = "done"
    /\ (\A i \in DOMAIN delayCall.events : delayCall.events[i] # "true") =>
           delayCall.elapsed >= DelayTicks

\* C16: delay_with_breaker always terminates: for every delay >= 0 and
\* every polling interval, a call returns, and with a breaker that never
\* returns true it returns once the delay has elapsed.
C16_AlwaysTerminates ==
    (/\ IsBoolCall
     /\ delayCall.pc # "idle"
     /\ FGe(delayCall.delay_sec, F(0))) ~> ReturnedAfterDelay

\* C16, for the polling intervals Duration::from_secs_f64 accepts: the
\* call returns, zero-length sleeps included.
C16_TerminatesForAcceptedInterval ==
    (/\ IsBoolCall
     /\ delayCall.pc # "idle"
     /\ FGe(delayCall.delay_sec, F(0))
     /\ ~DurationPanics(delayCall.check_interval)) ~> ReturnedAfterDelay

\* C17: delay_with_breaker_match never returns early: whatever values the
\* breaker yields, sleeps and evaluations alternate until a loop test finds
\* the delay elapsed, and the call returns the value of the last evaluation
\* (the first one when the delay is 0).
C17_MatchVariantNeverReturnsEarly ==
    (IsMatchCall /\ delayCall.events # <<>>) =>
        LET ev == delayCall.events IN
        /\ Alternates(ev)
        /\ delayCall.check_count = Len(Sleeps(ev))
        /\ (delayCall.pc = "sleep" /\ delayCall.exact) => delayCall.elapsed < DelayTicks
        /\ delayCall.pc = "done" =>
            /\ delayCall.elapsed >= DelayTicks
            /\ ~IsSleep(ev[Len(ev)])
            /\ delayCall.returned = ev[Len(ev)]
            /\ DelayTicks = 0 => (ev = <<delayCall.returned>>)

\* C17 witness: the breaker yielded "stop" twice, the call went on, and it
\* has returned the "go" of its last evaluation after the delay.
C17_Witness ==
    /\ IsMatchCall
    /\ delayCall.pc = "done"
    /\ delayCall.events = <<"stop", "sleep", "stop", "sleep", "go">>
    /\ delayCall.returned = "go"
    /\ delayCall.delay_sec = F(4)

\* C20: set_motors_speed with a vector whose length differs from the number
\* of motors returns the length-mismatch error and writes nothing to the
\* port, whether or not a port is open.
C20_WrongLengthWritesNothing ==
    (/\ ctlResult.op = "set_motors_speed"
     /\ Len(ctlResult.arg) # Len(motor_infos)) =>
        /\ ctlResult.outcome = "Err"
        /\ ctlResult.error = LengthError
        /\ ctlResult.wrote = 0

\* C20 witness: with the port open and a command already written, a vector
\* shorter than the motor list has been refused.
C20_Witness ==
    /\ ctlResult.op = "set_motors_speed"
    /\ ctlResult.outcome = "Err"
    /\ Len(ctlResult.arg) \in 1..(Len(motor_infos) - 1)
    /\ serial # None
    /\ wire # <<>>

\* A step of set_motors_speed or send_cmd: the call recorded in ctlResult'
IsWriteCall(r) == r.op \in {"set_motors_speed", "send_cmd"}

\* The call carries a speed vector of the controller's motor count (send_cmd
\* carries none)
RightLength(r, infos) ==
    r.op = "send_cmd" \/ Len(r.arg) = Len(infos)

\* What C21 promises of a call made without a port
HarmlessNoOp ==
    /\ ctlResult'.outcome = "Ok"
    /\ ctlResult'.wrote = 0
    /\ ctlResult'.attempts = 0
    /\ wire' = wire
    /\ serial' = serial
    /\ motor_infos' = motor_infos
    /\ "warn" \in ctlResult'.logs

\* C21 (as amended): while no port is open (never opened, or closed again),
\* every send_cmd call and every set_motors_speed call whose speed vector has
\* the motor count returns Ok, writes nothing, leaves the port and the motor
\* list as they were and logs a warning.
C21_NoPortIsLoggedNoOp ==
    [][serial = None /\ IsWriteCall(ctlResult') /\ RightLength(ctlResult', motor_infos)
          => HarmlessNoOp]_vars

\* C21 as stated: the same of every set_motors_speed call, whatever the
\* length of its speed vector.
C21_EveryCallWithoutPortSucceeds ==
    [][serial = None /\ IsWriteCall(ctlResult') => HarmlessNoOp]_vars

\* C21's case: the port was used and closed, and a later set_motors_speed of
\* the right length came back Ok with a warning and no write.
C21_Witness ==
    /\ serial = None
    /\ wire # <<>>
    /\ ctlResult.op = "set_motors_speed"
    /\ Len(ctlResult.arg) = Len(motor_infos)
    /\ ctlResult.outcome = "Ok"
    /\ ctlResult.wrote = 0
    /\ "warn" \in ctlResult.logs

\* The integer obtained from the rational n/d (d > 0) by dropping its
\* fraction: the integer of the sign of n whose magnitude k has
\* k * d <= |n| < (k + 1) * d
Magnitude(n) == IF n < 0 THEN -n ELSE n
TruncatedQuotient(n, d) ==
    LET k == CHOOSE k \in 0..Magnitude(n) :
                 k * d <= Magnitude(n) /\ Magnitude(n) < (k + 1) * d
    IN  IF n < 0 THEN -k ELSE k

\* The frames C22 describes for the motors from position i on, in order
RECURSIVE ExpectedFrames(_, _, _)
ExpectedFrames(infos, speeds, i) ==
    IF i > Len(infos) THEN ""
    ELSE ToString(infos[i].code_sign) \o "v"
            \o ToString(TruncatedQuotient(speeds[i].num * infos[i].direction,
                                          speeds[i].den))
            \o "\r" \o ExpectedFrames(infos, speeds, i + 1)

\* C22: a set_motors_speed that returned Ok with a port open made exactly one
\* write, and what it wrote is the concatenation, in motor_infos order, of one
\* frame <code_sign>v<speed * direction, fraction dropped>\r per motor.
C22_OneWriteOfAllFrames ==
    (ctlResult.op = "set_motors_speed" /\ ctlResult.outcome = "Ok" /\ serial # None)
        => /\ ctlResult.attempts = 1
           /\ ctlResult.wrote = 1
           /\ wire # <<>>
           /\ wire[Len(wire)] = ExpectedFrames(motor_infos, ctlResult.arg, 1)

\* C22's case: two motors, the second reversed, given -5 and 1.5: one write of
\* "1v-5\r2v-1\r" (the reversed 1.5 is -1.5, written as -1).
C22_Witness ==
    /\ ctlResult.op = "set_motors_speed"
    /\ ctlResult.outcome = "Ok"
    /\ serial # None
    /\ motor_infos = <<MotorInfo(1, 1), MotorInfo(2, -1)>>
    /\ ctlResult.arg = <<SpeedB, SpeedA>>
    /\ ctlResult.wrote = 1
    /\ wire[Len(wire)] = "1v-5\r2v-1\r"

\* C23: a set_motors_speed (of the right length) or send_cmd made with a port
\* open whose write did not reach the wire returns the io error, after one
\* write attempt and no more; it never returns Ok.
C23_WriteFailurePropagates ==
    [][(/\ serial # None
        /\ IsWriteCall(ctlResult')
        /\ RightLength(ctlResult', motor_infos)
        /\ wire' = wire)
          => /\ ctlResult'.outcome = "Err"
             /\ ctlResult'.error = "io"
             /\ ctlResult'.attempts = 1
             /\ ctlResult'.wrote = 0
             /\ "error" \in ctlResult'.logs]_vars

\* C23's case: after a write that succeeded, a set_motors_speed failed on its
\* write and returned the error; the wire holds the earlier write only.
C23_Witness ==
    /\ serial # None
    /\ Len(wire) = 1
    /\ ctlResult.op = "set_motors_speed"
    /\ Len(ctlResult.arg) = Len(motor_infos)
    /\ ctlResult.outcome = "Err"
    /\ ctlResult.error = "io"
    /\ ctlResult.attempts = 1
    /\ ctlResult.wrote = 0

\* Two entries of the list carry the same motor identifier (code_sign)
SharesIdentifier(infos) ==
    \E i, j \in 1..Len(infos) : i # j /\ infos[i].code_sign = infos[j].code_sign

\* Two entries of the list are equal in both fields
RepeatsEntry(infos) ==
    \E i, j \in 1..Len(infos) : i # j /\ infos[i] = infos[j]

\* C24: new, given a motor list in which two entries carry the same motor
\* identifier, fails: it returns no controller and opens no port.
C24_SharedIdentifierIsRejected ==
    (ctlResult.op = "new" /\ SharesIdentifier(ctlResult.arg))
        => (ctlResult.outcome = "Err" /\ ctlResult.opened = 0)

\* What the code does reject: new fails, opening no port, exactly when two
\* entries of the list are equal in identifier and direction (or the port
\* given does not open).
C24_RepeatedEntryIsRejected ==
    ctlResult.op = "new"
        => /\ RepeatsEntry(ctlResult.arg)
                => (ctlResult.outcome = "Err" /\ ctlResult.error = UniqueError
                        /\ ctlResult.opened = 0)
           /\ (ctlResult.outcome = "Err" /\ ctlResult.error = UniqueError)
                => RepeatsEntry(ctlResult.arg)

\* A construct_updater call has returned
UpdaterReturned == updater # NoUpdater

Built(op) == result.op = op
BuiltPattern == result.value.v.speed_pattern

\* One wheel of a per-wheel pattern
Wheel(p, axis) ==
    CASE axis = "FrontLeft" -> p.front_left
      [] axis = "RearLeft" -> p.rear_left
      [] axis = "RearRight" -> p.rear_right
      [] axis = "FrontRight" -> p.front_right

\* The wheel diagonally opposite
Opposite(axis) ==
    CASE axis = "FrontLeft" -> "RearRight"
      [] axis = "RearRight" -> "FrontLeft"
      [] axis = "RearLeft" -> "FrontRight"
      [] axis = "FrontRight" -> "RearLeft"

\* speed x 1.53 with the fraction dropped
TimesDiagonal(speed) == TruncatedQuotient(speed * 153, 100)

\* C26: for every fixed axis, drift(fixed_axis, speed) builds a per-wheel
\* pattern in which the fixed wheel is 0, the wheel diagonally opposite it is
\* speed x 1.53 truncated toward zero, and the two other wheels are speed.
C26_DriftFixesAxisAndBoostsDiagonal ==
    Built("drift") =>
        LET axis == result.arg.fixed_axis
            speed == result.arg.speed
        IN  /\ BuiltPattern.type = "Individual"
            /\ Wheel(BuiltPattern, axis) = 0
            /\ Wheel(BuiltPattern, Opposite(axis)) = TimesDiagonal(speed)
            /\ \A other \in FixedAxes \ {axis, Opposite(axis)} :
                   Wheel(BuiltPattern, other) = speed

\* What drift does build: one wheel 0, one wheel speed x 1.53 truncated, two
\* wheels speed, whichever wheels they are.
C26_DriftValuesSomewhere ==
    Built("drift") =>
        LET speed == result.arg.speed IN
        \E zero \in FixedAxes, boosted \in FixedAxes :
            /\ zero # boosted
            /\ Wheel(BuiltPattern, zero) = 0
            /\ Wheel(BuiltPattern, boosted) = TimesDiagonal(speed)
            /\ \A other \in FixedAxes \ {zero, boosted} :
                   Wheel(BuiltPattern, other) = speed

\* C27: drift(FrontLeft, speed) builds front_left 0, rear_left speed,
\* front_right speed x 1.53 truncated toward zero, rear_right speed.
C27_DriftFrontLeft ==
    (Built("drift") /\ result.arg.fixed_axis = "FrontLeft")
        => BuiltPattern = Individual(0, result.arg.speed,
                                     TimesDiagonal(result.arg.speed), result.arg.speed)

\* C27's case: drift(FrontLeft, 100) built (0, 100, 153, 100).
C27_Witness ==
    /\ Built("drift")
    /\ result.arg = [fixed_axis |-> "FrontLeft", speed |-> 100]
    /\ BuiltPattern = Individual(0, 100, 153, 100)

\* radius x outer_speed / (radius + 100) with the fraction dropped
ExactInner(radius, outer_speed) ==
    TruncatedQuotient(radius * outer_speed, radius + 100)

\* C28: differential(direction, radius, outer_speed) builds a left/right
\* pattern with inner = radius x outer_speed / (radius + 100) truncated toward
\* zero on the left and outer_speed on the right for Left, and the two
\* exchanged for Right.
C28_DifferentialInnerIsExactQuotient ==
    Built("differential") =>
        LET inner == ExactInner(result.arg.radius, result.arg.outer_speed)
            outer == result.arg.outer_speed
        IN  BuiltPattern = IF result.arg.direction = "Left"
                           THEN LeftRight(inner, outer)
                           ELSE LeftRight(outer, inner)

\* What differential does build: outer_speed on the outer side, and on the
\* inner side the exact quotient or the integer next to it toward zero; the
\* spec's example (Left, 100, 200) gives left 100, right 200.
C28_DifferentialInnerWithinOne ==
    Built("differential") =>
        LET exact == ExactInner(result.arg.radius, result.arg.outer_speed)
            outer == result.arg.outer_speed
            left == BuiltPattern.left
            right == BuiltPattern.right
            inner == IF result.arg.direction = "Left" THEN left ELSE right
        IN  /\ BuiltPattern.type = "LeftRight"
            /\ (IF result.arg.direction = "Left" THEN right ELSE left) = outer
            /\ Magnitude(inner) \in {Magnitude(exact), Magnitude(exact) - 1}
            /\ inner * exact >= 0
            /\ (result.arg.radius = 100 /\ outer = 200) => inner = 100

\* The components of a pattern, in the order of its fields
Components(p) ==
    CASE p.type = "Full" -> <<p.speed>>
      [] p.type = "LeftRight" -> <<p.left, p.right>>
      [] p.type = "Individual" ->
            <<p.front_left, p.rear_left, p.front_right, p.rear_right>>

\* C29: with_multiplier(factor) returns the state with the same id and a
\* pattern of the same variant in which every component is the old component
\* x factor with the fraction dropped toward zero, negative components
\* included.
C29_ScalesEveryComponentTowardZero ==
    [][\A state \in states, multiplier \in Multipliers :
          (with_multiplier(state, multiplier) /\ ~multiplier.nan)
              => LET u == result'.value.v
                     old == Components(state.speed_pattern)
                     new == Components(u.speed_pattern)
                 IN  /\ u.id = state.id
                     /\ u \in states'
                     /\ u.speed_pattern.type = state.speed_pattern.type
                     /\ Len(new) = Len(old)
                     /\ \A i \in 1..Len(old) :
                            new[i] = TruncatedQuotient(old[i] * multiplier.num,
                                                       multiplier.den)]_vars

\* C29's case: Uniform(50) was scaled by 2 and is held as Uniform(100), and
\* LeftRight{3, -4} scaled by 2 came back as LeftRight{6, -8}.
C29_Witness ==
    /\ result.op = "with_multiplier"
    /\ result.arg.speed_pattern = LeftRight(3, -4)
    /\ result.value.v.speed_pattern = LeftRight(6, -8)
    /\ result.value.v.id = result.arg.id
    /\ \E s \in states : s.speed_pattern = Full(100)

\* apriltag_detect_end has returned since thread i was spawned
EndedSince(i) ==
    i \in DOMAIN detectThreads /\ detectThreads[i].fate \in {"ended", "restarted"}

Exited(i) == i \in DOMAIN detectThreads /\ detectThreads[i].pc = "exited"

\* apriltag_detect_start was called after that end, with thread i still alive
Restarted(i) == i \in DOMAIN detectThreads /\ detectThreads[i].fate = "restarted"

\* C30: once apriltag_detect_end has returned, every detection thread spawned
\* before it eventually leaves its loop and exits, whether detection was
\* halted or not and whether or not apriltag_detect_start is called again
\* before the thread reads continue_detection.
C30_EndedThreadsExit ==
    \A i \in 1..MaxDetectThreads : EndedSince(i) ~> Exited(i)

\* What the code does ensure: after apriltag_detect_end has returned, a thread
\* spawned before it exits, halted or not, unless apriltag_detect_start is
\* called again before the thread has read the flag.
C30_EndedThreadsExitUnlessRestarted ==
    \A i \in 1..MaxDetectThreads :
        (EndedSince(i) /\ ~Restarted(i)) ~> (Exited(i) \/ Restarted(i))

\* The slots of a pool: one per element of a from_states vector and one per
\* entry of a to_states map.
SourceSlots(pool) ==
    UNION {{<<i, j>> : j \in DOMAIN pool[i].from_states} : i \in DOMAIN pool}
DestSlots(pool) ==
    UNION {{<<i, k>> : k \in DOMAIN pool[i].to_states} : i \in DOMAIN pool}
SlotsOf(pool, s) ==
    Cardinality({x \in SourceSlots(pool) : pool[x[1]].from_states[x[2]].id = s})
    + Cardinality({x \in DestSlots(pool) : pool[x[1]].to_states[x[2]].id = s})

\* C31: in every pool reachable through the public API each state id
\* occupies at most one source or destination slot of the whole pool; hence
\* start_states() is exactly the set of ids of the source states,
\* end_states() is exactly the set of ids of the destination states, and
\* validate() succeeds iff the pool holds exactly one source state in total.
C31_EachStateInOneSlot ==
    /\ \A s \in 0..MaxStates : SlotsOf(transitions, s) <= 1
    /\ start_states(transitions) = SourceIds(transitions)
    /\ end_states(transitions) = DestIds(transitions)
    /\ (validate_result(transitions) = "Ok")
           <=> (Cardinality(SourceSlots(transitions)) = 1)
    /\ (result.op = "validate")
           => ((result.outcome = "Ok")
                  <=> (Cardinality(SourceSlots(transitions)) = 1))

\* C31 happens: validate() has accepted a pool that holds one source state
\* and one destination state.
C31_Witness ==
    /\ result.op = "validate"
    /\ result.outcome = "Ok"
    /\ Cardinality(SourceSlots(transitions)) = 1
    /\ Cardinality(DestSlots(transitions)) = 1
    /\ start_states(transitions) # end_states(transitions)

\* C32: for every pool content, start_states() and end_states() are disjoint
\* and both are subsets of the ids of the states referenced by the pool's
\* transitions: no state is reported as both a start and an end state.
C32_StartAndEndDisjoint ==
    /\ start_states(transitions) \cap end_states(transitions) = {}
    /\ start_states(transitions) \subseteq ReferencedIds(transitions)
    /\ end_states(transitions) \subseteq ReferencedIds(transitions)

\* C32 happens: a pool of two transitions reports a start state and an end
\* state.
C32_Witness ==
    /\ Len(transitions) = 2
    /\ start_states(transitions) # {}
    /\ end_states(transitions) # {}

\* The detection threads that have not left their loop
AliveThreads == {i \in DOMAIN detectThreads : Alive(detectThreads[i])}

\* C33: at most one AprilTag detection thread is alive at any time: a second
\* apriltag_detect_start, with or without an apriltag_detect_end in between,
\* never leaves two threads running the detection loop and writing tag_id.
C33_AtMostOneThreadAlive == Cardinality(AliveThreads) <= 1

\* C34: in every reachable state of a CloseLoopController, after any sequence
\* of new, set_motor_infos, open, close, set_motors_speed and send_cmd, the
\* motor list holds no two motors with the same identifier, so one
\* set_motors_speed write never carries two frames for the same motor.
C34_MotorListHasDistinctIdentifiers == ~SharesIdentifier(motor_infos)

\* The ids 0, 1, 2, ... in order, with no gap
Consecutive(log) == \A i \in DOMAIN log : log[i] = i - 1

FailedNew(r) == r.op = "MovingTransition::new" /\ r.outcome = "Err"

\* C35: a failed MovingTransition::new (negative duration) leaves the
\* transition id allocator unchanged: the ids of the successfully constructed
\* transitions form the consecutive sequence 0, 1, 2, ... with no gap caused
\* by failed constructions.
C35_FailedNewKeepsAllocator ==
    [][/\ FailedNew(result') =>
              /\ TRANSITION_ID_COUNTER' = TRANSITION_ID_COUNTER
              /\ transitionIdLog' = transitionIdLog
       /\ Consecutive(transitionIdLog')
       /\ TRANSITION_ID_COUNTER' = Len(transitionIdLog')]_vars

\* C35 happens: a construction has failed after one that succeeded and before
\* the next id is drawn.
C35_Witness ==
    /\ FailedNew(result)
    /\ FLt(result.arg, F(0))
    /\ transitionIdLog = <<0>>
    /\ TRANSITION_ID_COUNTER = 1

\* A result of construct_updater without the record of the list it was
\* called with
WithoutUsages(r) == [r EXCEPT !.usages = <<>>]

\* The one-element list holding just the first usage of the last call
FirstUsageOnly == <<updater.usages[1]>>

\* C36: construct_updater builds its updater from the first usage only: for
\* a non-empty usage list the result (success or error, and the produced
\* closure's output) is the same as for the one-element list holding just
\* the first usage, whatever the later usages are, including later usages
\* with an out-of-range sampler index.
C36_OnlyFirstUsageCounts ==
    (UpdaterReturned /\ updater.usages # <<>>) =>
        /\ WithoutUsages(updater) = WithoutUsages(UpdaterResult(FirstUsageOnly))
        /\ updated.outcome # "none" =>
               /\ UpdaterResult(FirstUsageOnly).outcome = "Ok"
               /\ updated = ClosureOutput(UpdaterResult(FirstUsageOnly))

\* C36 happens: a list whose second usage names a sampler the Menta does
\* not have, and differs from the first, gave a closure that was called.
C36_Witness ==
    /\ Len(updater.usages) = 2
    /\ updater.usages[2].used_sampler_index >= Len(samplers)
    /\ updater.usages[2] # updater.usages[1]
    /\ updater.outcome = "Ok"
    /\ updated.outcome = "Ok"
====
